---- MODULE Spec2Model ----
(***************************************************************************)
(* Verification model of the unstructured-ingest connector pipeline:       *)
(* Uploader batching (Azure Cognitive Search, MongoDB), UploadStager        *)
(* transforms, the source-connector validation harness and the Downloader  *)
(* calls of the MongoDB, Confluence and Discord connectors.                 *)
(*                                                                         *)
(* Each part of the pipeline has its own specification over the shared     *)
(* variables: SpecUpload, SpecStage, SpecHarness, SpecDownload.  A         *)
(* specification leaves the variables of the other parts unchanged.        *)
(***************************************************************************)
EXTENDS Integers, Sequences, FiniteSets, TLC

VARIABLES
    \* ---- Uploader.run (azure_cognitive_search.py, mongodb.py) ----
    uConn,      \* which uploader: "azure_cognitive_search" | "mongodb"
    uElems,     \* elements_dict: the records json.load read from the staged file
    uBatch,     \* upload_config.batch_size
    uPc,        \* "start" | "loop" | "done" | "raised"
    uChunks,    \* chunks batch_generator has not yielded yet
    uWrites,    \* the write calls issued so far, in order (each a chunk)
    uDest,      \* records in effect at the destination
    uLast,      \* the last write call: the destination's verdict and the call's outcome
    uErr,       \* the outcome of run(): NoError, or the error that left run()
    uRuns,      \* run() calls started on this uploader
    uBefore,    \* the records at the destination when the current run() call began
    uWrappers,  \* write_dict_wrapper calls made on this uploader
    \* ---- UploadStager.run ----
    sConn,      \* which stager
    sInput,     \* the JSON array held by elements_filepath
    sOutput,    \* the JSON array held by the file at the returned path
    sPc,        \* "idle" | "ready" | "done" (run() has returned at least once) |
                \* "raised" (the last run() was left by an exception)
    \* ---- source_connector_validation (validation.py) ----
    hConn,      \* connector under test
    hReach,     \* what the remote does to the precheck request
    hItems,     \* identifiers the remote holds, in the remote's enumeration order
    hPc,        \* "precheck" | "index" | "download" | "validate" | "end" | "raised"
    hIdx,       \* number of FileData pulled from indexer.run()
    hRunCalled, \* indexer.run() has been invoked
    hDownloads, \* number of downloader calls made
    hPre,       \* all_predownload_file_data
    hPost,      \* all_postdownload_file_data
    hFate,      \* what the fetch of the last downloader call did ("none" before it)
    hErr,       \* the error that left source_connector_validation, or NoError
    hOverwrite, \* the overwrite_fixtures argument
    \* ---- Downloader.run ----
    dConn,      \* which downloader
    dOffset,    \* whose identifier the FileData handed over carry: 0 their own
                \* item's, 1 the next item's (FileData read back from storage)
    dCalls,     \* number of downloader calls that have ended
    dFs,        \* the download directory: identifier of the item -> content of its file
    dLast,      \* the last call: the fetch's fate and the call's outcome
    dWrote,     \* the calls that wrote a file: the FileData handed over and the path
    dPending,   \* per task, the DiscordDownloader.run coroutine it has started
    \* ---- Indexer.run ----
    iConn,      \* which indexer
    iRemote,    \* what the remote and the configuration enumerate (ids, spaces, channels)
    iBatch,     \* index_config.batch_size (MongoDB)
    iSeed,      \* the string hashing of the running process (orders a set's iteration)
    iClock,     \* the reading of the wall clock
    iRuns,      \* run() calls that have returned
    iPc,        \* "idle" | "running" | "yielded" | "done" | "raised"
    iTodo,      \* items the running generator has fetched and not yet yielded
    iSpaces,    \* spaces the running generator has not yet listed (Confluence)
    iOut,       \* FileData the current run() call has yielded, as the consumer holds them
    iFirst,     \* the same for the first run() call, once it has returned
    iErr,       \* the error that left run(), or NoError
    iDown,      \* how the consumer's last download ended, or NoError
    iStage,     \* per FileData of iOut, where its item is on the way through the
                \* download, the upload stager and the uploader
    iCalls,     \* the runs of a downloader, an upload stager or an uploader the
                \* consumer has called
    \* ---- the validation functions (validation.py) ----
    vData,      \* all_file_data: the post-download FileData
    vDownloads, \* the files in download_dir (k stands for the file of the k-th item)
    vExpected,  \* configs.expected_num_files (0 when unset)
    vExclude,   \* configs.exclude_fields
    vExtend,    \* configs.exclude_fields_extend
    vFixtures,  \* test_output_dir: whether it exists, file_data and directory_structure.json
    vResult,    \* "none" | "pass" | the exception that left the last validation call
    vLast,      \* the function called last
    vFresh,     \* update_fixtures has been called
    vCalls,     \* number of calls made
    vOmit,      \* the last direct call of configs.omit_ignored_fields
    \* ---- test_lancedb_destination (test_lancedb.py) ----
    tFile,      \* upload_file.name
    tPc,        \* "idle" | "start" | "staged" | "uploaded" | "raised"
    tStaged,    \* staged_file_path: the path stager.run returned (None before)
    tRead,      \* the path uploader.run_async was handed (None before)
    tFs,        \* the files under tmp_path
    \* ---- the confluence property (confluence.py) ----
    cKind,      \* the class of the instance: "indexer" | "downloader"
    cMode,      \* how its users are scheduled: "cooperative" | "threads"
    cConfluence,\* self._confluence: 0 for None, or the number of the client it holds
    cBuilt,     \* clients constructed so far (they are numbered 1, 2, ...)
    cPc,        \* per task, its position inside the getter and the client it has
                \* constructed and not yet stored
    cRets,      \* the accesses that have returned, in order: the task and its client
    cCalls      \* accesses started

uvars ==
    <<uConn, uElems, uBatch, uPc, uChunks, uWrites, uDest, uLast, uErr, uRuns, uBefore,
      uWrappers>>
svars == <<sConn, sInput, sOutput, sPc>>
hvars ==
    <<hConn, hReach, hItems, hPc, hIdx, hRunCalled, hDownloads, hPre, hPost, hFate,
      hErr, hOverwrite>>
dvars == <<dConn, dOffset, dCalls, dFs, dLast, dWrote, dPending>>
ivars ==
    <<iConn, iRemote, iBatch, iSeed, iClock, iRuns, iPc, iTodo, iSpaces, iOut, iFirst,
      iErr, iDown, iStage, iCalls>>
vvars ==
    <<vData, vDownloads, vExpected, vExclude, vExtend, vFixtures, vResult, vLast,
      vFresh, vCalls, vOmit>>
tvars == <<tFile, tPc, tStaged, tRead, tFs>>
cvars == <<cKind, cMode, cConfluence, cBuilt, cPc, cRets, cCalls>>
vars == <<uvars, svars, hvars, dvars, ivars, vvars, tvars, cvars>>

(***************************************************************************)
(* Bounds of the model.                                                    *)
(***************************************************************************)
MaxRecords == 5     \* records in a staged file: 0..MaxRecords
MaxBatch == 3       \* configured batch sizes: 1..MaxBatch
MaxElems == 2       \* element records in a stager input file: 0..MaxElems
MaxItems == 3       \* documents at the remote source: 0..MaxItems
MaxCalls == 3       \* calls on one connector instance, calls of one consumer
MaxRuns == 2        \* calls (run, write_dict_wrapper) on one connector instance
MaxFiles == 2       \* FileData handed to the validation functions: 0..MaxFiles

\* the tasks (coroutines of one event loop, threads) that use one connector
\* instance at the same time
Tasks == {1, 2}

(***************************************************************************)
(* Errors.  An outcome is a record: kind "return" for a normal return,     *)
(* otherwise the class of the exception that leaves the call; cause is the *)
(* class of the exception it was raised from ("none" when raised directly);*)
(* detail is what the message names.                                       *)
(***************************************************************************)
TypedKinds ==
    {"SourceConnectionError", "DestinationConnectionError", "WriteError"}

Returned == [kind |-> "return", cause |-> "none", detail |-> <<>>]
NoError == [kind |-> "none", cause |-> "none", detail |-> <<>>]
Raise(kind, detail) == [kind |-> kind, cause |-> "none", detail |-> detail]

\* CustomError.wrap: the decorated call's exception is re-raised as cls with the
\* original message formatted into cls.error_string, unless it already is a cls.
wrap(cls, outcome) ==
    IF outcome.kind = "return" \/ outcome.kind = cls
    THEN outcome
    ELSE [kind |-> cls, cause |-> outcome.kind, detail |-> outcome.detail]

\* no downloader call has been made yet
NoDownload ==
    [called |-> FALSE, given |-> <<>>, fetch |-> {}, fate |-> "none", source |-> <<>>,
     outcome |-> NoError, file_data |-> <<>>, path |-> "", content |-> "",
     rewrote |-> FALSE]

(***************************************************************************)
(* Sequence helpers.                                                       *)
(***************************************************************************)
RECURSIVE Flatten(_)
Flatten(ss) == IF ss = <<>> THEN <<>> ELSE Head(ss) \o Flatten(Tail(ss))

Range(s) == {s[i] : i \in 1..Len(s)}

Min(a, b) == IF a <= b THEN a ELSE b

\* itertools.islice(it, batch_size) repeated until the iterator is exhausted
RECURSIVE batch_generator(_, _)
batch_generator(iterable, batch_size) ==
    IF iterable = <<>> \/ batch_size <= 0
    THEN <<>>
    ELSE LET n == Min(batch_size, Len(iterable))
         IN <<SubSeq(iterable, 1, n)>>
            \o batch_generator(SubSeq(iterable, n + 1, Len(iterable)), batch_size)

(***************************************************************************)
(* Uploader: AzureCognitiveSearchUploader and MongoDBUploader.             *)
(*                                                                         *)
(* A staged record is represented by its key (1..N, in file order).  The   *)
(* destination answers one write call with a verdict: for Azure, an HTTP   *)
(* error or one IndexingResult per document; for MongoDB (insert_many,     *)
(* ordered), the position of the first document that is refused, if any.   *)
(***************************************************************************)
Uploaders == {"azure_cognitive_search", "mongodb"}

\* what a destination reports for a record it refuses
Reasons ==
    { [status_code |-> 409, error_message |-> "conflict"],
      [status_code |-> 422, error_message |-> "invalid document"] }

ErrorItem(key, reason) ==
    [key |-> key, status_code |-> reason.status_code,
     error_message |-> reason.error_message]

\* no call of omit_ignored_fields made yet
NoOmit ==
    [called |-> FALSE, ok |-> TRUE, own |-> FALSE, data |-> [k \in {} |-> ""],
     after |-> [k \in {} |-> ""], result |-> [k \in {} |-> ""]]

NoCall ==
    [called |-> FALSE, via |-> "none", chunk |-> <<>>, rejected |-> {},
     accepted |-> <<>>, error |-> "none", reason |-> CHOOSE r \in Reasons : TRUE,
     outcome |-> NoError]

\* what generate_client().upload_documents(...) may raise: nothing, an
\* azure.core.exceptions.HttpResponseError, or another exception of the client
\* library (AzureError stands for every class that is not HttpResponseError)
UploadErrors == {"none", "HttpResponseError", "AzureError"}

\* SearchClient.upload_documents(documents=chunk): one result per document
upload_documents(chunk, rejected, reason) ==
    [i \in 1..Len(chunk) |->
        [azure_cognitive_search_key |-> chunk[i],
         succeeded |-> chunk[i] \notin rejected,
         status_code |-> IF chunk[i] \in rejected THEN reason.status_code ELSE 200,
         error_message |-> IF chunk[i] \in rejected THEN reason.error_message ELSE ""]]

\* the body of AzureCognitiveSearchUploader.write_dict, below its decorators
write_dict_body(chunk, error, rejected, reason) ==
    IF error = "HttpResponseError"
    THEN [kind |-> "WriteError", cause |-> "HttpResponseError", detail |-> <<>>]
    ELSE IF error # "none"
    THEN Raise(error, <<>>)
    ELSE LET results == upload_documents(chunk, rejected, reason)
             errors == SelectSeq(results, LAMBDA r : ~r.succeeded)
         IN IF errors # <<>>
            THEN Raise("WriteError",
                       [i \in 1..Len(errors) |->
                           [key |-> errors[i].azure_cognitive_search_key,
                            status_code |-> errors[i].status_code,
                            error_message |-> errors[i].error_message]])
            ELSE Returned

\* @DestinationConnectionError.wrap def write_dict(...)
write_dict(chunk, error, rejected, reason) ==
    wrap("DestinationConnectionError",
         write_dict_body(chunk, error, rejected, reason))

\* the documents of chunk the Azure index took
AzureAccepted(chunk, error, rejected) ==
    IF error # "none" THEN <<>> ELSE SelectSeq(chunk, LAMBDA r : r \notin rejected)

\* pymongo Collection.insert_many(chunk), ordered: documents before position
\* failed_at are inserted, the one at failed_at is refused and BulkWriteError is
\* raised; failed_at = 0 when every document is inserted
insert_many(chunk, failed_at, reason) ==
    IF failed_at = 0
    THEN Returned
    ELSE Raise("BulkWriteError", <<ErrorItem(chunk[failed_at], reason)>>)

MongoAccepted(chunk, failed_at) ==
    IF failed_at = 0 THEN chunk ELSE SubSeq(chunk, 1, failed_at - 1)

\* the write calls run() may make on one chunk, as the call and the verdict of
\* the destination: self.write_dict(chunk), collection.insert_many(chunk)
WriteCalls(conn, chunk) ==
    IF conn = "azure_cognitive_search"
    THEN {[called |-> TRUE, via |-> "run", chunk |-> chunk, rejected |-> v[2],
           accepted |-> AzureAccepted(chunk, v[1], v[2]), error |-> v[1],
           reason |-> v[3], outcome |-> write_dict(chunk, v[1], v[2], v[3])] :
             v \in {w \in UploadErrors \X (SUBSET Range(chunk)) \X Reasons :
                       /\ w[1] # "none" => w[2] = {}
                       /\ w[2] = {} => w[3] = NoCall.reason}}
    ELSE {[called |-> TRUE, via |-> "run", chunk |-> chunk,
           rejected |-> IF v[1] = 0 THEN {} ELSE {chunk[v[1]]},
           accepted |-> MongoAccepted(chunk, v[1]), error |-> "none",
           reason |-> v[2], outcome |-> insert_many(chunk, v[1], v[2])] :
             v \in {w \in (0..Len(chunk)) \X Reasons :
                       w[1] = 0 => w[2] = NoCall.reason}}

\* Uploader.run on the chunks of a staged file, from its first write call to
\* its return or to the exception that leaves it: the ways it can end at a
\* destination that holds dest.  Each chunk is written in turn; the first
\* write call that raises ends the run.
Uploader_run(conn, chunks, dest) ==
    LET sent(c) == CHOOSE call \in WriteCalls(conn, c) : call.outcome.kind = "return"
    IN {[pc |-> "done", chunks |-> <<>>, writes |-> chunks,
         dest |-> dest \o Flatten(chunks),
         last |-> IF chunks = <<>> THEN NoCall ELSE sent(chunks[Len(chunks)]),
         err |-> NoError]}
       \cup
       UNION {{[pc |-> "raised", chunks |-> SubSeq(chunks, f, Len(chunks)),
                writes |-> SubSeq(chunks, 1, f),
                dest |-> dest \o Flatten(SubSeq(chunks, 1, f - 1)) \o call.accepted,
                last |-> call, err |-> call.outcome] :
                  call \in {c \in WriteCalls(conn, chunks[f]) :
                              c.outcome.kind # "return"}} :
              f \in 1..Len(chunks)}

\* the state after construction of the uploader, the other parts not exercised
UploadInit ==
    /\ uConn \in Uploaders
    /\ \E n \in 0..MaxRecords : uElems = [i \in 1..n |-> i]
    /\ uBatch \in 1..MaxBatch
    /\ uPc = "start"
    /\ uChunks = <<>>
    /\ uWrites = <<>>
    /\ uDest = <<>>
    /\ uLast = NoCall
    /\ uErr = NoError /\ uRuns = 0 /\ uBefore = <<>> /\ uWrappers = 0
    /\ sConn = "mongodb" /\ sInput = <<>> /\ sOutput = <<>> /\ sPc = "idle"
    /\ hConn = "mongodb" /\ hReach = "ok" /\ hItems = <<>> /\ hPc = "idle"
    /\ hIdx = 0 /\ hRunCalled = FALSE /\ hDownloads = 0 /\ hPre = <<>>
    /\ hPost = <<>> /\ hFate = "none" /\ hErr = NoError /\ hOverwrite = FALSE
    /\ dConn = "mongodb" /\ dOffset = 0 /\ dCalls = 0 /\ dFs = <<>> /\ dLast = NoDownload /\ dWrote = {}
    /\ dPending = <<>>
    /\ iConn = "mongodb" /\ iRemote = <<>> /\ iBatch = 1 /\ iSeed = 1 /\ iClock = 1
    /\ iRuns = 0 /\ iPc = "idle" /\ iTodo = <<>> /\ iSpaces = <<>> /\ iOut = <<>>
    /\ iFirst = <<>> /\ iErr = NoError /\ iDown = NoError /\ iStage = <<>>
    /\ iCalls = 0
    /\ vData = <<>> /\ vDownloads = {} /\ vExpected = 0 /\ vExclude = <<>>
    /\ vExtend = <<>> /\ vFixtures = <<>> /\ vResult = "none" /\ vLast = "none"
    /\ vFresh = FALSE /\ vCalls = 0 /\ vOmit = NoOmit
    /\ tFile = "" /\ tPc = "idle" /\ tStaged = "None" /\ tRead = "None" /\ tFs = {}
    /\ cKind = "indexer" /\ cMode = "cooperative" /\ cConfluence = 0 /\ cBuilt = 0
    /\ cPc = <<>> /\ cRets = <<>> /\ cCalls = 0

\* run(): json.load(file) and the creation of the batch generator; the call is
\* the first on the staged file or the caller's retry of a run() that raised
Uploader_run_open ==
    /\ uPc \in {"start", "raised"}
    /\ uRuns + uWrappers < MaxRuns
    /\ uRuns' = uRuns + 1
    /\ uChunks' = batch_generator(uElems, uBatch)
    /\ uWrites' = <<>>
    /\ uLast' = NoCall
    /\ uErr' = NoError
    /\ uBefore' = uDest
    /\ uPc' = "loop"
    /\ UNCHANGED <<uConn, uElems, uBatch, uDest, uWrappers>>
    /\ UNCHANGED <<svars, hvars, dvars, ivars, vvars, tvars, cvars>>

\* the loop going on to the next chunk after a write call that raised
RunAfterWrite_goes_on(chunk, sent, outcome, accepted, rejected, error, reason) ==
    /\ uWrites' = Append(uWrites, sent)
    /\ uDest' = uDest \o accepted
    /\ uLast' = [called |-> TRUE, via |-> "run", chunk |-> sent, rejected |-> rejected,
                 accepted |-> accepted, error |-> error,
                 reason |-> reason, outcome |-> outcome]
    /\ uChunks' = Tail(uChunks)
    /\ UNCHANGED <<uPc, uErr>>
    /\ UNCHANGED <<uConn, uElems, uBatch, uRuns, uBefore, uWrappers>>
    /\ UNCHANGED <<svars, hvars, dvars, ivars, vvars, tvars, cvars>>

\* the effect of one write call of run()'s loop on the state of run()
RunAfterWrite(chunk, sent, outcome, accepted, rejected, error, reason) ==
    /\ uWrites' = Append(uWrites, sent)
    /\ uDest' = uDest \o accepted
    /\ uLast' = [called |-> TRUE, via |-> "run", chunk |-> sent, rejected |-> rejected,
                 accepted |-> accepted, error |-> error,
                 reason |-> reason, outcome |-> outcome]
    /\ IF outcome.kind = "return"
       THEN /\ uChunks' = Tail(uChunks)
            /\ UNCHANGED <<uPc, uErr>>
       ELSE /\ uPc' = "raised"
            /\ uErr' = outcome
            /\ UNCHANGED uChunks
    /\ UNCHANGED <<uConn, uElems, uBatch, uRuns, uBefore, uWrappers>>
    /\ UNCHANGED <<svars, hvars, dvars, ivars, vvars, tvars, cvars>>

\* a mutant of the loop body: the whole list is sent instead of the chunk
AzureCognitiveSearchUploader_run_write_whole ==
    /\ uConn = "azure_cognitive_search"
    /\ uPc = "loop"
    /\ uChunks # <<>>
    /\ \E error \in UploadErrors, rejected \in SUBSET Range(uElems), reason \in Reasons :
          /\ error # "none" => rejected = {}
          /\ rejected = {} => reason = NoCall.reason
          /\ RunAfterWrite(Head(uChunks), uElems,
                           write_dict(uElems, error, rejected, reason),
                           AzureAccepted(uElems, error, rejected),
                           rejected, error, reason)

\* AzureCognitiveSearchUploader.run: one iteration of
\*   for chunk in batch_generator(elements_dict, batch_size): self.write_dict(chunk)
AzureCognitiveSearchUploader_run_write ==
    /\ uConn = "azure_cognitive_search"
    /\ uPc = "loop"
    /\ uChunks # <<>>
    /\ LET chunk == Head(uChunks)
       IN \E error \in UploadErrors, rejected \in SUBSET Range(chunk), reason \in Reasons :
             /\ error # "none" => rejected = {}
             /\ rejected = {} => reason = NoCall.reason
             /\ RunAfterWrite(chunk, chunk,
                              write_dict(chunk, error, rejected, reason),
                              AzureAccepted(chunk, error, rejected),
                              rejected, error, reason)

\* MongoDBUploader.run: one iteration of
\*   for chunk in batch_generator(elements_dict, batch_size): collection.insert_many(chunk)
MongoDBUploader_run_write ==
    /\ uConn = "mongodb"
    /\ uPc = "loop"
    /\ uChunks # <<>>
    /\ LET chunk == Head(uChunks)
       IN \E failed_at \in 0..Len(chunk), reason \in Reasons :
             /\ failed_at = 0 => reason = NoCall.reason
             /\ RunAfterWrite(chunk, chunk,
                              insert_many(chunk, failed_at, reason),
                              MongoAccepted(chunk, failed_at),
                              IF failed_at = 0 THEN {} ELSE {chunk[failed_at]},
                              "none", reason)

\* the generator is exhausted: run() returns None
Uploader_run_return ==
    /\ uPc = "loop"
    /\ uChunks = <<>>
    /\ uPc' = "done"
    /\ UNCHANGED <<uConn, uElems, uBatch, uChunks, uWrites, uDest, uLast, uErr, uRuns,
                   uBefore, uWrappers>>
    /\ UNCHANGED <<svars, hvars, dvars, ivars, vvars, tvars, cvars>>

\* AzureCognitiveSearchUploader.write_dict_wrapper(elements_dict): one write_dict
\* call on the whole list, outside run(); the caller hands it the staged records
AzureCognitiveSearchUploader_write_dict_wrapper ==
    /\ uConn = "azure_cognitive_search"
    /\ uPc \in {"start", "done", "raised"}
    /\ uRuns + uWrappers < MaxRuns
    /\ uWrappers' = uWrappers + 1
    /\ \E error \in UploadErrors, rejected \in SUBSET Range(uElems), reason \in Reasons :
          /\ error # "none" => rejected = {}
          /\ rejected = {} => reason = NoCall.reason
          /\ uDest' = uDest \o AzureAccepted(uElems, error, rejected)
          /\ uLast' = [called |-> TRUE, via |-> "write_dict_wrapper", chunk |-> uElems,
                       rejected |-> rejected,
                       accepted |-> AzureAccepted(uElems, error, rejected),
                       error |-> error, reason |-> reason,
                       outcome |-> write_dict(uElems, error, rejected, reason)]
    /\ UNCHANGED <<uConn, uElems, uBatch, uPc, uChunks, uWrites, uErr, uRuns, uBefore>>
    /\ UNCHANGED <<svars, hvars, dvars, ivars, vvars, tvars, cvars>>

UploadNext ==
    \/ Uploader_run_open
    \/ AzureCognitiveSearchUploader_write_dict_wrapper
    \/ AzureCognitiveSearchUploader_run_write
    \/ MongoDBUploader_run_write
    \/ Uploader_run_return

SpecUpload == UploadInit /\ [][UploadNext]_vars

(***************************************************************************)
(* Claims about Uploader.run and write_dict, checked under SpecUpload.     *)
(***************************************************************************)
CeilDiv(n, b) == (n + b - 1) \div b

\* C1: for a staged file of N records and batch size B >= 1, the write calls
\* run() has issued are, in file order, the consecutive slices of B records of
\* the staged list (the last one possibly shorter), and a run() that returns has
\* issued exactly ceil(N/B) of them, so every record is written exactly once.
C1_RunWritesCeilBatchesInOrder ==
    /\ \A i \in 1..Len(uWrites) :
          uWrites[i] = SubSeq(uElems, (i - 1) * uBatch + 1,
                              Min(i * uBatch, Len(uElems)))
    /\ uPc = "done" =>
          /\ Len(uWrites) = CeilDiv(Len(uElems), uBatch)
          /\ Flatten(uWrites) = uElems

\* a run over 5 records with batch size 2 that returned after writes of 2, 2, 1
C1_Witness ==
    /\ uPc = "done"
    /\ Len(uElems) = 5
    /\ uBatch = 2
    /\ Len(uWrites) = 3
    /\ Len(uWrites[3]) = 1

\* C2: when the destination rejects the k-th batch, run() raises a typed write
\* error (WriteError) that names only records of batch k, and the records of
\* batches 1..k-1 are in effect at the destination.
C2_RejectedBatchRaisesWriteError ==
    uPc = "raised" =>
        LET k == Len(uWrites)
        IN /\ uErr.kind = "WriteError"
           /\ \A j \in 1..Len(uErr.detail) : uErr.detail[j].key \in Range(uWrites[k])
           /\ \A i \in 1..(k - 1) : Range(uWrites[i]) \subseteq Range(uDest)

\* C3: a write_dict call whose results hold at least one record that did not
\* succeed raises WriteError whose detail lists exactly the rejected records
\* (key, status code, reason); a call whose records all succeeded returns.
C3_WriteDictRaisesWriteErrorForRejected ==
    (uConn = "azure_cognitive_search" /\ uLast.called /\ uLast.error = "none") =>
        IF uLast.rejected # {}
        THEN /\ uLast.outcome.kind = "WriteError"
             /\ Range(uLast.outcome.detail)
                  = {ErrorItem(r, uLast.reason) : r \in uLast.rejected}
        ELSE uLast.outcome = Returned

(***************************************************************************)
(* UploadStager: AzureCognitiveSearchUploadStager and MongoDBUploadStager. *)
(*                                                                         *)
(* A JSON value is a record [form, v]: form says what kind of value it is  *)
(* (and, for a string, how it was produced), v is its content: the number  *)
(* for an int, the length for a list, the size for a map, the instant for  *)
(* a timestamp string, and for a plain string 0 for "" and a positive code *)
(* for a text.  An element record is a function from keys to values;       *)
(* "metadata", "coordinates" and "data_source" hold nested functions.      *)
(***************************************************************************)
Stagers == {"azure_cognitive_search", "mongodb"}

Val(form, v) == [form |-> form, v |-> v]
None == Val("none", 0)
EmptyDict == [k \in {} |-> None]

StringForms ==
    {"str", "iso_str", "wire_str", "decimal_str", "json_of_list", "json_of_map",
     "json_of_str", "json_of_int", "repr_str", "uuid_str"}
JsonForms == {"json_of_list", "json_of_map", "json_of_str", "json_of_int"}
ListForms == {"list_of_map", "list_of_pair", "list_of_json"}

\* Python truth value of a JSON value
Truthy(x) ==
    CASE x.form = "none" -> FALSE
      [] x.form \in {"int", "str", "map"} \cup ListForms -> x.v # 0
      [] OTHER -> TRUE

\* json.dumps(x): a string holding the JSON text of x
json_dumps(x) ==
    CASE x.form \in ListForms -> Val("json_of_list", x.v)
      [] x.form = "map" -> Val("json_of_map", x.v)
      [] x.form = "int" -> Val("json_of_int", x.v)
      [] OTHER -> Val("json_of_str", x.v)

\* [json.dumps(link) for link in links]
json_dumps_each(x) == Val("list_of_json", x.v)

\* str(x)
str(x) ==
    CASE x.form = "int" -> Val("decimal_str", x.v)
      [] x.form \in StringForms -> x
      [] OTHER -> Val("repr_str", x.v)

\* parse_datetime(x).strftime("%Y-%m-%dT%H:%M:%S.%fZ")
strftime_wire(x) == Val("wire_str", x.v)

\* str(uuid.uuid4())
UUIDs == {Val("uuid_str", 1), Val("uuid_str", 2)}

\* dict.get along a path, with {} for a missing container and None for a
\* missing last key
Get(d, k) == IF k \in DOMAIN d THEN d[k] ELSE EmptyDict
GetLeaf(d, k) == IF k \in DOMAIN d THEN d[k] ELSE None
get2(data, a, b) == GetLeaf(Get(data, a), b)
get3(data, a, b, c) == GetLeaf(Get(Get(data, a), b), c)

\* the conversion a branch of conform_dict applies to the value it read
Convert(how, x) ==
    CASE how = "json.dumps" -> json_dumps(x)
      [] how = "json.dumps each" -> json_dumps_each(x)
      [] how = "str" -> str(x)
      [] how = "strftime" -> strftime_wire(x)

\* if value := data.get(a, {}).get(b): data[a][b] = how(value)
Coerce2(data, a, b, how) ==
    IF Truthy(get2(data, a, b))
    THEN [data EXCEPT ![a][b] = Convert(how, @)]
    ELSE data

\* if value := data.get(a, {}).get(b, {}).get(c): data[a][b][c] = how(value)
Coerce3(data, a, b, c, how) ==
    IF Truthy(get3(data, a, b, c))
    THEN [data EXCEPT ![a][b][c] = Convert(how, @)]
    ELSE data

\* a mutant of conform_dict: metadata is created when the record has none
conform_dict_setdefault(data, uuid) ==
    ("id" :> uuid) @@ data @@ ("metadata" :> EmptyDict)

\* AzureCognitiveSearchUploadStager.conform_dict
conform_dict(data, uuid) ==
    LET d0 == ("id" :> uuid) @@ data
        d1 == Coerce3(d0, "metadata", "coordinates", "points", "json.dumps")
        d2 == Coerce3(d1, "metadata", "data_source", "version", "str")
        d3 == Coerce3(d2, "metadata", "data_source", "record_locator", "json.dumps")
        d4 == Coerce3(d3, "metadata", "data_source", "permissions_data", "json.dumps")
        d5 == Coerce2(d4, "metadata", "links", "json.dumps each")
        d6 == Coerce2(d5, "metadata", "last_modified", "strftime")
        d7 == Coerce3(d6, "metadata", "data_source", "date_created", "strftime")
        d8 == Coerce3(d7, "metadata", "data_source", "date_modified", "strftime")
        d9 == Coerce3(d8, "metadata", "data_source", "date_processed", "strftime")
        d10 == Coerce2(d9, "metadata", "regex_metadata", "json.dumps")
        d11 == Coerce2(d10, "metadata", "page_number", "str")
    IN d11

(***************************************************************************)
(* The element records the stager input files are drawn from: each leaf    *)
(* field is absent, present with a false value (0, "", [], {}) or present  *)
(* with a true value.                                                      *)
(***************************************************************************)
MetaLeaves == {"filename", "links", "last_modified", "regex_metadata", "page_number"}
CoordLeaves == {"points"}
SourceLeaves ==
    {"version", "record_locator", "permissions_data", "date_created",
     "date_modified", "date_processed"}
TopLeaves == {"text"}
Leaves == TopLeaves \cup MetaLeaves \cup CoordLeaves \cup SourceLeaves

LeafValue(k, truthy) ==
    CASE k \in {"text", "filename"} -> Val("str", IF truthy THEN 1 ELSE 0)
      [] k \in {"links", "permissions_data"} -> Val("list_of_map", IF truthy THEN 1 ELSE 0)
      [] k = "points" -> Val("list_of_pair", IF truthy THEN 4 ELSE 0)
      [] k \in {"record_locator", "regex_metadata"} -> Val("map", IF truthy THEN 2 ELSE 0)
      [] k \in {"version", "page_number"} -> Val("int", IF truthy THEN 3 ELSE 0)
      [] OTHER -> IF truthy THEN Val("iso_str", 7) ELSE Val("str", 0)

Sub(keys, F, truthy) == [k \in keys \cap F |-> LeafValue(k, truthy)]

Element(F, truthy) ==
    LET coords == IF F \cap CoordLeaves = {} THEN EmptyDict
                  ELSE "coordinates" :> Sub(CoordLeaves, F, truthy)
        source == IF F \cap SourceLeaves = {} THEN EmptyDict
                  ELSE "data_source" :> Sub(SourceLeaves, F, truthy)
        meta == Sub(MetaLeaves, F, truthy) @@ coords @@ source
    IN Sub(TopLeaves, F, truthy)
       @@ (IF F \cap (Leaves \ TopLeaves) = {} THEN EmptyDict ELSE "metadata" :> meta)

Elements ==
    {Element(F, truthy) : F \in {G \in SUBSET Leaves : Cardinality(G) <= 1},
                          truthy \in BOOLEAN}

RECURSIVE SeqsUpTo(_, _)
SeqsUpTo(S, n) ==
    IF n = 0 THEN {<<>>}
    ELSE LET shorter == SeqsUpTo(S, n - 1)
         IN shorter \cup {Append(q, e) : q \in {r \in shorter : Len(r) = n - 1}, e \in S}

StageInit ==
    /\ sConn \in Stagers
    /\ sInput \in SeqsUpTo(Elements, MaxElems)
    /\ sOutput = <<>>
    /\ sPc = "ready"
    /\ uConn = "mongodb" /\ uElems = <<>> /\ uBatch = 1 /\ uPc = "idle"
    /\ uChunks = <<>> /\ uWrites = <<>> /\ uDest = <<>> /\ uLast = NoCall
    /\ uErr = NoError /\ uRuns = 0 /\ uBefore = <<>> /\ uWrappers = 0
    /\ hConn = "mongodb" /\ hReach = "ok" /\ hItems = <<>> /\ hPc = "idle"
    /\ hIdx = 0 /\ hRunCalled = FALSE /\ hDownloads = 0 /\ hPre = <<>>
    /\ hPost = <<>> /\ hFate = "none" /\ hErr = NoError /\ hOverwrite = FALSE
    /\ dConn = "mongodb" /\ dOffset = 0 /\ dCalls = 0 /\ dFs = <<>> /\ dLast = NoDownload /\ dWrote = {}
    /\ dPending = <<>>
    /\ iConn = "mongodb" /\ iRemote = <<>> /\ iBatch = 1 /\ iSeed = 1 /\ iClock = 1
    /\ iRuns = 0 /\ iPc = "idle" /\ iTodo = <<>> /\ iSpaces = <<>> /\ iOut = <<>>
    /\ iFirst = <<>> /\ iErr = NoError /\ iDown = NoError /\ iStage = <<>>
    /\ iCalls = 0
    /\ vData = <<>> /\ vDownloads = {} /\ vExpected = 0 /\ vExclude = <<>>
    /\ vExtend = <<>> /\ vFixtures = <<>> /\ vResult = "none" /\ vLast = "none"
    /\ vFresh = FALSE /\ vCalls = 0 /\ vOmit = NoOmit
    /\ tFile = "" /\ tPc = "idle" /\ tStaged = "None" /\ tRead = "None" /\ tFs = {}
    /\ cKind = "indexer" /\ cMode = "cooperative" /\ cConfluence = 0 /\ cBuilt = 0
    /\ cPc = <<>> /\ cRets = <<>> /\ cCalls = 0

\* a mutant of run(): empty element records are skipped
AzureCognitiveSearchUploadStager_run_skip_empty ==
    /\ sConn = "azure_cognitive_search"
    /\ LET kept == SelectSeq(sInput, LAMBDA e : DOMAIN e # {})
       IN \E uuids \in [1..Len(kept) -> UUIDs] :
             sOutput' = [i \in 1..Len(kept) |-> conform_dict(kept[i], uuids[i])]
    /\ sPc' = "done"
    /\ UNCHANGED <<sConn, sInput>>
    /\ UNCHANGED <<uvars, hvars, dvars, ivars, vvars, tvars, cvars>>

\* AzureCognitiveSearchUploadStager.run: json.load, conform_dict on every
\* element in order, json.dump to output_dir/output_filename.json
AzureCognitiveSearchUploadStager_run ==
    /\ sConn = "azure_cognitive_search"
    /\ \E uuids \in [1..Len(sInput) -> UUIDs] :
          sOutput' = [i \in 1..Len(sInput) |-> conform_dict(sInput[i], uuids[i])]
    /\ sPc' = "done"
    /\ UNCHANGED <<sConn, sInput>>
    /\ UNCHANGED <<uvars, hvars, dvars, ivars, vvars, tvars, cvars>>

\* MongoDBUploadStager.run: json.load, json.dump of the same list
MongoDBUploadStager_run ==
    /\ sConn = "mongodb"
    /\ sOutput' = sInput
    /\ sPc' = "done"
    /\ UNCHANGED <<sConn, sInput>>
    /\ UNCHANGED <<uvars, hvars, dvars, ivars, vvars, tvars, cvars>>

StageNext ==
    \/ AzureCognitiveSearchUploadStager_run
    \/ MongoDBUploadStager_run

SpecStage == StageInit /\ [][StageNext]_vars

(***************************************************************************)
(* Claims about UploadStager.run, checked under SpecStage.                 *)
(***************************************************************************)
\* out is the transform of the element record inp by the stager conn
StagedFrom(conn, inp, out) ==
    IF conn = "azure_cognitive_search"
    THEN \E u \in UUIDs : out = conform_dict(inp, u)
    ELSE out = inp

\* C4: after UploadStager.run on a file of n element records, the output file
\* holds exactly n records and the i-th output record is the transform of the
\* i-th input record.
C4_StagerOneOutputPerInputInOrder ==
    sPc = "done" =>
        /\ Len(sOutput) = Len(sInput)
        /\ \A i \in 1..Len(sInput) : StagedFrom(sConn, sInput[i], sOutput[i])

\* the Azure stager has staged a file of two different records, one of them empty
C4_Witness ==
    /\ sPc = "done"
    /\ sConn = "azure_cognitive_search"
    /\ Len(sInput) = 2
    /\ Len(sOutput) = 2
    /\ sInput[1] # sInput[2]
    /\ \E i \in 1..2 : DOMAIN sInput[i] = {}

\* C5: a second run of the same stager on the same input yields output records
\* identical to the first run's, field for field, the assigned id included.
C5_StagerRunIsDeterministic ==
    [][(sPc = "done" /\ sPc' = "done") => sOutput' = sOutput]_vars

\* the value of leaf field k in an element record, None when absent
LeafAt(d, k) ==
    CASE k \in MetaLeaves -> get2(d, "metadata", k)
      [] k \in CoordLeaves -> get3(d, "metadata", "coordinates", k)
      [] k \in SourceLeaves -> get3(d, "metadata", "data_source", k)
      [] OTHER -> GetLeaf(d, k)

CoercedLeaves == Leaves \ {"text", "filename"}

\* the declared wire format of the type-coerced field k
WireFormat(k, x) ==
    CASE k \in {"page_number", "version"} -> x.form \in StringForms
      [] k \in {"last_modified", "date_created", "date_modified", "date_processed"} ->
            x.form = "wire_str"
      [] k = "links" -> x.form = "list_of_json" \/ (x.form \in ListForms /\ x.v = 0)
      [] OTHER -> x.form \in JsonForms

\* C6: every record output by the Azure stager has each type-coerced field that
\* is present in the input in its wire format, whatever the value (0, "", [],
\* {} included).
C6_CoercedFieldsInWireFormat ==
    (sPc = "done" /\ sConn = "azure_cognitive_search") =>
        \A i \in 1..Len(sOutput) : \A k \in CoercedLeaves :
            LeafAt(sInput[i], k) # None => WireFormat(k, LeafAt(sOutput[i], k))

\* the keys of an element record at every level conform_dict walks
KeyPaths(d) ==
    {<<k>> : k \in DOMAIN d}
    \cup {<<"metadata", k>> : k \in DOMAIN Get(d, "metadata")}
    \cup {<<"metadata", "coordinates", k>> :
             k \in DOMAIN Get(Get(d, "metadata"), "coordinates")}
    \cup {<<"metadata", "data_source", k>> :
             k \in DOMAIN Get(Get(d, "metadata"), "data_source")}

\* C7: the key set of every output record, at every level under metadata,
\* equals the key set of its input record plus top-level "id" for the Azure
\* stager (nothing added for the MongoDB stager), and no field holds null.
C7_StagerAddsNoAbsentField ==
    sPc = "done" =>
        \A i \in 1..Len(sOutput) :
            /\ i <= Len(sInput)
            /\ KeyPaths(sOutput[i])
                 = KeyPaths(sInput[i])
                   \cup (IF sConn = "azure_cognitive_search" THEN {<<"id">>} ELSE {})
            /\ \A k \in Leaves : LeafAt(sInput[i], k) = None
                                    => LeafAt(sOutput[i], k) = None

\* the Azure stager has staged a record without metadata and a record whose
\* page_number was coerced to a string
C7_Witness ==
    /\ sPc = "done"
    /\ sConn = "azure_cognitive_search"
    /\ Len(sOutput) = 2
    /\ "metadata" \notin DOMAIN sInput[1]
    /\ "id" \in DOMAIN sOutput[1]
    /\ LeafAt(sInput[2], "page_number") = Val("int", 3)
    /\ LeafAt(sOutput[2], "page_number") = Val("decimal_str", 3)

(***************************************************************************)
(* Remote failures and precheck().                                         *)
(*                                                                         *)
(* reach is what the remote system does to a request: "ok", or one of the  *)
(* failure kinds of the error taxonomy (network, auth, service).  The      *)
(* client library raises its own exception class for each failure.         *)
(***************************************************************************)
FailureKinds == {"network", "auth", "service"}

ClientError(reach) ==
    CASE reach = "network" -> "ClientTimeoutError"
      [] reach = "auth" -> "ClientAuthError"
      [] OTHER -> "ClientServiceError"

\* a request to the remote system through the client library
ClientCall(reach) ==
    IF reach = "ok" THEN Returned ELSE Raise(ClientError(reach), <<>>)

\* try: <client call>  except Exception as e: raise cls(...)
CatchAll(cls, outcome) ==
    IF outcome.kind = "return"
    THEN outcome
    ELSE [kind |-> cls, cause |-> outcome.kind, detail |-> outcome.detail]

\* a mutant of precheck: only a network failure is caught and typed
precheck_network_only(reach) ==
    IF reach = "network"
    THEN CatchAll("SourceConnectionError", ClientCall(reach))
    ELSE ClientCall(reach)

\* MongoDBIndexer.precheck
MongoDBIndexer_precheck(reach) ==
    CatchAll("SourceConnectionError", ClientCall(reach))

\* ConfluenceIndexer.precheck
ConfluenceIndexer_precheck(reach) ==
    CatchAll("SourceConnectionError", ClientCall(reach))

\* AzureCognitiveSearchUploader.precheck
AzureCognitiveSearchUploader_precheck(reach) ==
    CatchAll("DestinationConnectionError", ClientCall(reach))

\* MongoDBUploader.precheck
MongoDBUploader_precheck(reach) ==
    CatchAll("DestinationConnectionError", ClientCall(reach))

(***************************************************************************)
(* FileData.  A Python string is a string, None is NoneValue, a dict is a  *)
(* function from its keys.  A document id is a record: t is its BSON type  *)
(* and s its printed form; the i-th item a remote holds has the id         *)
(* MongoDocId(i), PageId(i) or ChannelId(i).                               *)
(***************************************************************************)
NoneValue == "None"

DocId(t, s) == [t |-> t, s |-> s]

\* a FileData built without source_identifiers
NoSourceIdentifiers ==
    [fullpath |-> NoneValue, filename |-> NoneValue, rel_path |-> NoneValue]

\* the _id values collection.distinct("_id") returns: ObjectIds, ints, strings
MongoDocId(i) ==
    CASE i % 3 = 1 -> DocId("ObjectId", "65a" \o ToString(i))
      [] i % 3 = 2 -> DocId("int", ToString(i))
      [] OTHER -> DocId("str", ToString(i - 1))

\* page["id"] of the pages get_all_pages_from_space returns
PageId(i) == "10" \o ToString(i)

\* connection_config.channels
ChannelId(i) == "90" \o ToString(i)

\* str(doc_id): the printed form, whatever the BSON type
str_doc_id(doc_id) == doc_id.s

\* doc_id.generation_time.isoformat(): the instant held in the ObjectId itself
generation_time_isoformat(doc_id) == "gen-" \o doc_id.s

\* str(time()), str(dt.datetime.utcnow().timestamp())
str_time(now) == ToString(now) \o ".0"

\* dt.datetime.utcnow().isoformat()
utcnow_isoformat(now) == "T" \o ToString(now)

Database == "ingest-test-db"
Collection == "sample"
ConfluenceUrl == "https://wiki.example"

\* the FileData MongoDBIndexer.run builds for doc_id at clock reading now
MongoDBIndexer_file_data(doc_id, now) ==
    [identifier |-> str_doc_id(doc_id),
     connector_type |-> "mongodb",
     source_identifiers |->
         [fullpath |-> str_doc_id(doc_id),
          filename |-> str_doc_id(doc_id),
          rel_path |-> str_doc_id(doc_id) \o ".txt"],
     metadata |->
         [date_created |-> IF doc_id.t = "ObjectId"
                           THEN generation_time_isoformat(doc_id)
                           ELSE NoneValue,
          date_processed |-> str_time(now),
          record_locator |-> [database |-> Database,
                              collection |-> Collection,
                              document_id |-> str_doc_id(doc_id)]],
     additional_metadata |-> <<>>,
     local_download_path |-> NoneValue]

\* the FileData ConfluenceIndexer.run builds for page doc_id of space space_id
ConfluenceIndexer_file_data(space_id, doc_id) ==
    [identifier |-> doc_id,
     connector_type |-> "confluence",
     source_identifiers |-> NoSourceIdentifiers,
     metadata |-> [space_id |-> space_id, document_id |-> doc_id],
     source_url |-> ConfluenceUrl \o "/pages/" \o doc_id,
     local_download_path |-> NoneValue]

\* DiscordIndexer.get_channel_file_data; the two clock readings are those of
\* its two utcnow() calls
DiscordIndexer_get_channel_file_data(channel_id, now1, now2) ==
    [identifier |-> channel_id,
     connector_type |-> "discord",
     source_identifiers |->
         [fullpath |-> channel_id,
          filename |-> channel_id \o ".txt",
          rel_path |-> channel_id],
     metadata |->
         [date_created |-> utcnow_isoformat(now1),
          date_modified |-> utcnow_isoformat(now1),
          record_locator |-> [channel_id |-> channel_id],
          date_processed |-> str_time(now2)],
     additional_metadata |-> <<>>,
     local_download_path |-> NoneValue]

(***************************************************************************)
(* Source items.  A MongoDB document is the sequence of its fields in      *)
(* field order; a field has a key k, a type t and its value: s for a       *)
(* string or an ObjectId, n for an int, sub (a document) for a dict.  A    *)
(* Confluence page is a record of the parts get_page_by_id expands; a      *)
(* Discord channel is the sequence of the contents of its messages.        *)
(***************************************************************************)
Field(k, t, s, n, sub) == [k |-> k, t |-> t, s |-> s, n |-> n, sub |-> sub]
StrField(k, s) == Field(k, "str", s, 0, <<>>)
IntField(k, n) == Field(k, "int", "", n, <<>>)
DictField(k, sub) == Field(k, "dict", "", 0, sub)
IdField(doc_id) == Field("_id", doc_id.t, doc_id.s, 0, <<>>)

\* documents the collection may hold under doc_id
MongoDocs(doc_id) ==
    {<<IdField(doc_id)>>,
     <<IdField(doc_id), StrField("title", "")>>,
     <<StrField("title", "x"), IdField(doc_id), IntField("n", 3)>>,
     <<IdField(doc_id), DictField("meta", <<StrField("a", "y"), StrField("b", "")>>),
       IntField("n", 0)>>,
     <<IdField(doc_id), StrField("a_b", "1"), DictField("a", <<StrField("b", "2")>>)>>}

Page(body, title, number, created, when) ==
    [body |-> body, title |-> title, number |-> number, created |-> created,
     when |-> when]

\* pages the space may hold under one id
Pages == {Page("", "Empty", 1, "2024-01-01", "2024-01-01"),
          Page("<p>x</p>", "Home", 2, "2024-01-01", "2024-02-01")}

\* message contents a channel may hold, in the order channel.history yields them
Channels == {<<>>, <<"hi">>, <<"hi", "">>}

\* what the remote holds for an item that is not there
NoItem == <<>>

\* the items connector conn may hold under its i-th id
SourceItems(conn, i) ==
    CASE conn = "mongodb" -> MongoDocs(MongoDocId(i))
      [] conn = "confluence" -> Pages
      [] OTHER -> Channels

\* the FileData the indexer of conn yields for its i-th item
Indexer_file_data(conn, i, now) ==
    CASE conn = "mongodb" -> MongoDBIndexer_file_data(MongoDocId(i), now)
      [] conn = "confluence" -> ConfluenceIndexer_file_data("DOCS", PageId(i))
      [] OTHER -> DiscordIndexer_get_channel_file_data(ChannelId(i), now, now)

\* a FileData read back from its serialized form: the fields the indexer gave
\* the i-th item, under the identifier of the j-th
FileData_from_dict(conn, i, j) ==
    [Indexer_file_data(conn, i, 0) EXCEPT
        !.identifier = Indexer_file_data(conn, j, 0).identifier]

(***************************************************************************)
(* The fetch.  Each downloader derives the key of its remote query from    *)
(* the FileData; the remote answers with the item it holds under that key. *)
(***************************************************************************)
\* the strings bson.ObjectId(...) accepts
ObjectIdHex ==
    {MongoDocId(i).s : i \in {k \in 1..(2 * MaxItems) : MongoDocId(k).t = "ObjectId"}}

\* try: document_id = ObjectId(file_data.identifier)
\* except Exception: document_id = file_data.identifier
MongoDBDownloader_document_id(file_data) ==
    IF file_data.identifier \in ObjectIdHex
    THEN DocId("ObjectId", file_data.identifier)
    ELSE DocId("str", file_data.identifier)

\* doc_id = file_data.identifier
ConfluenceDownloader_doc_id(file_data) == file_data.identifier

\* record_locator["channel_id"], None when run() finds no such key
DiscordDownloader_channel_id(file_data) ==
    IF "record_locator" \in DOMAIN file_data.metadata
       /\ "channel_id" \in DOMAIN file_data.metadata.record_locator
    THEN file_data.metadata.record_locator.channel_id
    ELSE NoneValue

\* collection.find_one({"_id": document_id}): the items whose _id has that
\* type and value
find_one(document_id) == {i \in 1..MaxItems : MongoDocId(i) = document_id}

\* confluence.get_page_by_id(page_id=doc_id)
get_page_by_id(page_id) == {i \in 1..MaxItems : PageId(i) = page_id}

\* bot.get_channel(int(channel_id))
get_channel(channel_id) == {i \in 1..MaxItems : ChannelId(i) = channel_id}

\* the remote items the downloader of conn asks for when handed file_data
Downloader_fetch(conn, file_data) ==
    CASE conn = "mongodb" -> find_one(MongoDBDownloader_document_id(file_data))
      [] conn = "confluence" -> get_page_by_id(ConfluenceDownloader_doc_id(file_data))
      [] OTHER -> get_channel(DiscordDownloader_channel_id(file_data))

\* what the remote may hold under the key of that query
\* the fates the fetch may have at a remote that may hold the items held: it
\* finds an item only where the remote holds one under the key
FetchFates(conn, file_data, held) ==
    {fate \in {"found", "missing"} \cup FailureKinds :
        fate = "found" => Downloader_fetch(conn, file_data) \cap held # {}}

\* the item the remote holds for a fetch of that fate
FetchSources(conn, file_data, fate, held) ==
    IF fate = "missing" \/ Downloader_fetch(conn, file_data) \cap held = {}
    THEN {NoItem}
    ELSE UNION {SourceItems(conn, i) : i \in Downloader_fetch(conn, file_data) \cap held}

\* channel.history(limit=100)
HistoryLimit == 100

\* how many messages channel.history may have yielded when the fetch ends: all
\* of them (up to the limit) when it succeeds, any number of them when it fails
FetchYields(conn, fate, source) ==
    IF conn # "discord" \/ fate = "missing" THEN {0}
    ELSE IF fate = "found" THEN {Min(HistoryLimit, Len(source))}
    ELSE 0..Min(HistoryLimit, Len(source))

(***************************************************************************)
(* Python dict and string operations the downloaders use.                  *)
(***************************************************************************)
\* separator.join(strs)
RECURSIVE join(_, _)
join(separator, strs) ==
    IF strs = <<>> THEN ""
    ELSE IF Len(strs) = 1 THEN strs[1]
    ELSE strs[1] \o separator \o join(separator, Tail(strs))

\* str(value) of a field's value
str_value(f) == IF f.t = "int" THEN ToString(f.n) ELSE f.s

\* d.pop(key, None) on a document
dict_pop(d, key) == SelectSeq(d, LAMBDA f : f.k # key)

\* d[f.k] = value of f: an existing key keeps its place, a new one goes last
dict_setitem(d, f) ==
    IF \E i \in 1..Len(d) : d[i].k = f.k
    THEN [i \in 1..Len(d) |-> IF d[i].k = f.k THEN f ELSE d[i]]
    ELSE Append(d, f)

\* d.update(e)
RECURSIVE dict_update(_, _)
dict_update(d, e) ==
    IF e = <<>> THEN d ELSE dict_update(dict_setitem(d, Head(e)), Tail(e))

\* flatten_dict(dictionary, parent_key): nested dicts are replaced by their
\* fields under the key parent_key + "_" + key, in field order
RECURSIVE flatten_dict(_, _)
flatten_dict(dictionary, parent_key) ==
    IF dictionary = <<>> THEN <<>>
    ELSE LET f == dictionary[Len(dictionary)]
             new_key == IF parent_key # "" THEN parent_key \o "_" \o f.k ELSE f.k
             flattened_dict == flatten_dict(SubSeq(dictionary, 1, Len(dictionary) - 1),
                                            parent_key)
         IN IF f.t = "dict"
            THEN dict_update(flattened_dict, flatten_dict(f.sub, new_key))
            ELSE dict_setitem(flattened_dict, [f EXCEPT !.k = new_key])

\* metadata.update(new) on a dict held as a function
metadata_update(metadata, new) ==
    [k \in DOMAIN metadata \cup DOMAIN new |->
        IF k \in DOMAIN new THEN new[k] ELSE metadata[k]]

\* with open(path, "a") as f: f.write(text)
open_a_write(fs, path, text) ==
    [p \in DOMAIN fs \cup {path} |->
        IF p = path THEN (IF path \in DOMAIN fs THEN fs[path] ELSE "") \o text
        ELSE fs[p]]

\* with open(path, "w") as f: f.write(text)
open_w_write(fs, path, text) ==
    [p \in DOMAIN fs \cup {path} |-> IF p = path THEN text ELSE fs[p]]

(***************************************************************************)
(* Downloader calls.  fate is what the remote fetch of the item does:      *)
(* "found" (the item is returned), "missing" (the remote answers that      *)
(* there is no such item) or a failure kind.  source is the item the       *)
(* remote holds, NoItem when it holds none.                                *)
(***************************************************************************)
Downloaders == {"mongodb", "confluence", "discord"}
Fates == {"found", "missing"} \cup FailureKinds

DownloadDir == "download_dir"

\* Downloader.get_download_path: the download directory joined with the
\* FileData's rel_path, None without source identifiers
get_download_path(file_data) ==
    IF file_data.source_identifiers = NoSourceIdentifiers
    THEN NoneValue
    ELSE DownloadDir \o "/" \o file_data.source_identifiers.rel_path

\* what a downloader call leaves behind: its outcome, the FileData and the path
\* of its DownloadResponse, and the text of the file it wrote (written = FALSE
\* when the call wrote no file)
Download(outcome, file_data, path, written, content) ==
    [outcome |-> outcome, file_data |-> file_data, path |-> path,
     written |-> written, content |-> content]

\* Downloader.generate_download_response: the DownloadResponse holds the same
\* FileData, its local_download_path set to the download path
generate_download_response(file_data, download_path, content) ==
    Download(Returned, [file_data EXCEPT !.local_download_path = download_path],
             download_path, TRUE, content)

\* the body of MongoDBDownloader.run, below its decorators
MongoDBDownloader_run_body(file_data, fate, source) ==
    IF fate \in FailureKinds
    THEN Download(Raise(ClientError(fate), <<>>), file_data, NoneValue, FALSE, "")
    ELSE IF fate = "missing"
    THEN Download(Raise("FileNotFoundError", <<>>), file_data, NoneValue, FALSE, "")
    ELSE LET doc == dict_pop(source, "_id")
             flattened_dict == flatten_dict(doc, "")
             concatenated_values ==
                 join("\n", [i \in 1..Len(flattened_dict) |->
                                str_value(flattened_dict[i])])
             download_path == get_download_path(file_data)
         IN IF download_path = NoneValue
            THEN Download(Raise("ValueError", <<>>), file_data, NoneValue, FALSE, "")
            ELSE generate_download_response(
                     [file_data EXCEPT !.local_download_path = download_path],
                     download_path, concatenated_values)

\* MongoDBDownloader.run storing the converted document id back in the FileData
MongoDBDownloader_run_stores_object_id(file_data, fate, source) ==
    LET r == MongoDBDownloader_run_body(file_data, fate, source)
    IN [r EXCEPT !.outcome = wrap("SourceConnectionError", r.outcome),
                 !.file_data.identifier = "ObjectId(" \o @ \o ")"]

\* @SourceConnectionError.wrap def run(...)
MongoDBDownloader_run(file_data, fate, source) ==
    LET r == MongoDBDownloader_run_body(file_data, fate, source)
    IN [r EXCEPT !.outcome = wrap("SourceConnectionError", r.outcome)]

\* the config attribute self.download_config of a downloader: MongoDBDownloader
\* and DiscordDownloader declare the field download_config, ConfluenceDownloader
\* declares downloader_config and has no attribute of that name
download_config(conn) == conn # "confluence"

\* filename = f"{doc_id}.html"
ConfluenceDownloader_filename(doc_id) == doc_id \o ".html"

\* ConfluenceDownloader.run; self.download_dir is read through
\* self.download_config, which a ConfluenceDownloader does not have, so for a
\* page that is found AttributeError leaves run before the file is opened
ConfluenceDownloader_run(file_data, fate, source) ==
    IF fate \in FailureKinds
    THEN Download(CatchAll("SourceConnectionError", Raise(ClientError(fate), <<>>)),
                  file_data, NoneValue, FALSE, "")
    ELSE IF fate = "missing"
    THEN Download(Raise("ValueError", <<>>), file_data, NoneValue, FALSE, "")
    ELSE IF ~download_config("confluence")
    THEN Download(Raise("AttributeError", <<>>), file_data, NoneValue, FALSE, "")
    ELSE LET doc_id == file_data.identifier
             content == source.body
             download_path == DownloadDir \o "/" \o ConfluenceDownloader_filename(doc_id)
             metadata == metadata_update(file_data.metadata,
                             [date_created |-> source.created,
                              date_modified |-> source.when,
                              version |-> source.number,
                              title |-> source.title])
         IN generate_download_response([file_data EXCEPT !.metadata = metadata],
                                       download_path, content)

\* await bot.start(token) with its on_ready handler: the messages appended
\* before the fetch ended.  An exception of bot.start, of get_channel(...) having
\* returned None, or of channel.history after it yielded some messages is caught
\* and logged, and the messages appended so far are kept.
DiscordDownloader_on_ready(fate, source, yielded) ==
    IF fate = "missing" THEN <<>> ELSE SubSeq(source, 1, yielded)

\* download_channel after bot.start: the messages are written, one per line,
\* and the response is returned
DiscordDownloader_write_messages(file_data, download_path, messages) ==
    LET content == join("", [i \in 1..Len(messages) |-> messages[i] \o "\n"])
    IN generate_download_response(file_data, download_path, content)

\* DiscordDownloader.download_channel run without another task in between;
\* download_path.parent.mkdir raises AttributeError when get_download_path
\* returned None
DiscordDownloader_download_channel(channel_id, file_data, fate, source, yielded) ==
    LET download_path == get_download_path(file_data)
    IN IF download_path = NoneValue
       THEN Download(Raise("AttributeError", <<>>), file_data, NoneValue, FALSE, "")
       ELSE DiscordDownloader_write_messages(
                file_data, download_path,
                DiscordDownloader_on_ready(fate, source, yielded))

\* DiscordDownloader.run, awaited
DiscordDownloader_run(file_data, fate, source, yielded) ==
    LET record_locator == file_data.metadata.record_locator
    IN IF "channel_id" \in DOMAIN record_locator
       THEN DiscordDownloader_download_channel(record_locator.channel_id, file_data,
                                               fate, source, yielded)
       ELSE Download(Raise("ValueError", <<>>), file_data, NoneValue, FALSE, "")

Downloader_run(conn, file_data, fate, source, yielded) ==
    CASE conn = "mongodb" -> MongoDBDownloader_run(file_data, fate, source)
      [] conn = "confluence" -> ConfluenceDownloader_run(file_data, fate, source)
      [] OTHER -> DiscordDownloader_run(file_data, fate, source, yielded)

DownloadInit ==
    /\ dConn \in Downloaders
    /\ dOffset \in {0, 1}
    /\ dCalls = 0
    /\ dFs = <<>>
    /\ dLast = NoDownload /\ dWrote = {}
    /\ dPending = <<>>
    /\ uConn = "mongodb" /\ uElems = <<>> /\ uBatch = 1 /\ uPc = "idle"
    /\ uChunks = <<>> /\ uWrites = <<>> /\ uDest = <<>> /\ uLast = NoCall
    /\ uErr = NoError /\ uRuns = 0 /\ uBefore = <<>> /\ uWrappers = 0
    /\ sConn = "mongodb" /\ sInput = <<>> /\ sOutput = <<>> /\ sPc = "idle"
    /\ hConn = "mongodb" /\ hReach = "ok" /\ hItems = <<>> /\ hPc = "idle"
    /\ hIdx = 0 /\ hRunCalled = FALSE /\ hDownloads = 0 /\ hPre = <<>>
    /\ hPost = <<>> /\ hFate = "none" /\ hErr = NoError /\ hOverwrite = FALSE
    /\ iConn = "mongodb" /\ iRemote = <<>> /\ iBatch = 1 /\ iSeed = 1 /\ iClock = 1
    /\ iRuns = 0 /\ iPc = "idle" /\ iTodo = <<>> /\ iSpaces = <<>> /\ iOut = <<>>
    /\ iFirst = <<>> /\ iErr = NoError /\ iDown = NoError /\ iStage = <<>>
    /\ iCalls = 0
    /\ vData = <<>> /\ vDownloads = {} /\ vExpected = 0 /\ vExclude = <<>>
    /\ vExtend = <<>> /\ vFixtures = <<>> /\ vResult = "none" /\ vLast = "none"
    /\ vFresh = FALSE /\ vCalls = 0 /\ vOmit = NoOmit
    /\ tFile = "" /\ tPc = "idle" /\ tStaged = "None" /\ tRead = "None" /\ tFs = {}
    /\ cKind = "indexer" /\ cMode = "cooperative" /\ cConfluence = 0 /\ cBuilt = 0
    /\ cPc = <<>> /\ cRets = <<>> /\ cCalls = 0

\* a downloader call that keeps the file it finds at its path and writes a
\* second copy beside it
AfterDownload_second_copy(given, fate, source, r) ==
    /\ dCalls' = dCalls + 1
    /\ dFs' = IF r.written
              THEN open_w_write(dFs, IF r.path \in DOMAIN dFs
                                     THEN r.path \o ".1" ELSE r.path, r.content)
              ELSE dFs
    /\ dLast' = [called |-> TRUE, given |-> given,
                 fetch |-> Downloader_fetch(dConn, given),
                 fate |-> fate, source |-> source,
                 outcome |-> r.outcome, file_data |-> r.file_data, path |-> r.path,
                 content |-> r.content,
                 rewrote |-> r.written /\ r.path \in DOMAIN dFs]
    /\ dWrote' = IF r.written
                 THEN dWrote \cup {[file_data |-> given, path |-> r.path]}
                 ELSE dWrote
    /\ UNCHANGED <<dConn, dOffset>>
    /\ UNCHANGED <<uvars, svars, hvars, ivars, vvars, tvars, cvars>>

\* the effect of one downloader call on the download directory; given is the
\* FileData handed to the call, r what the call leaves behind
AfterDownload(given, fate, source, r) ==
    /\ dCalls' = dCalls + 1
    /\ dFs' = IF r.written THEN open_w_write(dFs, r.path, r.content) ELSE dFs
    /\ dLast' = [called |-> TRUE, given |-> given,
                 fetch |-> Downloader_fetch(dConn, given),
                 fate |-> fate, source |-> source,
                 outcome |-> r.outcome, file_data |-> r.file_data, path |-> r.path,
                 content |-> r.content,
                 rewrote |-> r.written /\ r.path \in DOMAIN dFs]
    /\ dWrote' = IF r.written
                 THEN dWrote \cup {[file_data |-> given, path |-> r.path]}
                 ELSE dWrote
    /\ UNCHANGED <<dConn, dOffset>>
    /\ UNCHANGED <<uvars, svars, hvars, ivars, vvars, tvars, cvars>>

\* one call of MongoDBDownloader.run on the FileData of the i-th document
MongoDBDownloader_call ==
    /\ dConn = "mongodb"
    /\ dCalls < MaxCalls
    /\ \E i \in 1..MaxItems :
          LET file_data == FileData_from_dict(dConn, i, ((i + dOffset - 1) % MaxItems) + 1)
          IN \E fate \in FetchFates(dConn, file_data, 1..MaxItems) :
                \E source \in FetchSources(dConn, file_data, fate, 1..MaxItems) :
                   AfterDownload(file_data, fate, source,
                                 MongoDBDownloader_run(file_data, fate, source))
    /\ UNCHANGED dPending

\* one call of ConfluenceDownloader.run on the FileData of the i-th page
ConfluenceDownloader_call ==
    /\ dConn = "confluence"
    /\ dCalls < MaxCalls
    /\ \E i \in 1..MaxItems :
          LET file_data == FileData_from_dict(dConn, i, ((i + dOffset - 1) % MaxItems) + 1)
          IN \E fate \in FetchFates(dConn, file_data, 1..MaxItems) :
                \E source \in FetchSources(dConn, file_data, fate, 1..MaxItems) :
                   AfterDownload(file_data, fate, source,
                                 ConfluenceDownloader_run(file_data, fate, source))
    /\ UNCHANGED dPending

\* a task awaits DiscordDownloader.run, once, on the FileData of the i-th
\* channel: run and download_channel up to `await bot.start(...)`, where the
\* coroutine is suspended (the download path is computed, its parent directory
\* made); a FileData without channel_id or without a download path ends the
\* call here
DiscordDownloader_call ==
    /\ dConn = "discord"
    /\ \E task \in Tasks \ DOMAIN dPending, i \in 1..MaxItems :
          LET file_data == FileData_from_dict(dConn, i, ((i + dOffset - 1) % MaxItems) + 1)
              now == DiscordDownloader_run(file_data, "missing", NoItem, 0)
          IN IF now.outcome.kind # "return"
             THEN /\ AfterDownload(file_data, "none", NoItem, now)
                  /\ UNCHANGED dPending
             ELSE /\ dPending' = (task :> [pc |-> "bot.start", given |-> file_data,
                                           fate |-> "none", source |-> NoItem,
                                           messages |-> <<>>]) @@ dPending
                  /\ UNCHANGED <<dConn, dOffset, dCalls, dFs, dLast, dWrote>>
                  /\ UNCHANGED <<uvars, svars, hvars, ivars, vvars, tvars, cvars>>

\* the coroutine of a task is resumed inside bot.start: on_ready collects the
\* messages the channel holds now, or the fetch fails; the coroutine is
\* suspended again (await bot.close(), the return of bot.start)
DiscordDownloader_bot_start ==
    /\ dConn = "discord"
    /\ \E task \in DOMAIN dPending :
          /\ dPending[task].pc = "bot.start"
          /\ LET file_data == dPending[task].given
             IN \E fate \in FetchFates(dConn, file_data, 1..MaxItems) :
                   \E source \in FetchSources(dConn, file_data, fate, 1..MaxItems) :
                      \E yielded \in FetchYields(dConn, fate, source) :
                         dPending' =
                             [dPending EXCEPT ![task] =
                                 [pc |-> "write", given |-> file_data, fate |-> fate,
                                  source |-> source,
                                  messages |-> DiscordDownloader_on_ready(
                                                   fate, source, yielded)]]
    /\ UNCHANGED <<dConn, dOffset, dCalls, dFs, dLast, dWrote>>
    /\ UNCHANGED <<uvars, svars, hvars, ivars, vvars, tvars, cvars>>

\* the coroutine of a task is resumed after bot.start: the file is opened with
\* mode "w", the messages written, and run returns its response
DiscordDownloader_write ==
    /\ dConn = "discord"
    /\ \E task \in DOMAIN dPending :
          /\ dPending[task].pc = "write"
          /\ AfterDownload(dPending[task].given, dPending[task].fate,
                           dPending[task].source,
                           DiscordDownloader_write_messages(
                               dPending[task].given,
                               get_download_path(dPending[task].given),
                               dPending[task].messages))
          /\ dPending' = [dPending EXCEPT ![task] = [pc |-> "done"]]

DownloadNext ==
    \/ MongoDBDownloader_call
    \/ ConfluenceDownloader_call
    \/ DiscordDownloader_call
    \/ DiscordDownloader_bot_start
    \/ DiscordDownloader_write

SpecDownload == DownloadInit /\ [][DownloadNext]_vars

(***************************************************************************)
(* source_connector_validation: precheck, then a download per FileData     *)
(* pulled from indexer.run(), then the validations or the re-baselining.   *)
(***************************************************************************)
HarnessConnectors == {"mongodb", "confluence", "discord"}

\* the elements files the upload_file fixture may name
UploadFiles == {"a.pdf.json", "b.pdf.json"}

\* indexer.precheck(); DiscordIndexer defines none, the inherited one does nothing
Indexer_precheck(conn, reach) ==
    CASE conn = "mongodb" -> MongoDBIndexer_precheck(reach)
      [] conn = "confluence" -> ConfluenceIndexer_precheck(reach)
      [] OTHER -> Returned

\* which of run and run_async a downloader class defines, and how
Implements(conn) ==
    CASE conn = "mongodb" -> [run |-> "def", run_async |-> "none"]
      [] conn = "confluence" -> [run |-> "def", run_async |-> "none"]
      [] conn = "discord" -> [run |-> "async def", run_async |-> "none"]
      [] OTHER -> [run |-> "def", run_async |-> "async def"]

\* downloader.is_async(): none of the four classes defines it; the fsspec
\* downloaders inherit one that answers True, the others one that answers False
is_async(conn) == conn = "s3"

\* dataclasses.replace(file_data): a new FileData holding the same field values
replace(file_data) == file_data

\* the harness's call of the downloader and its use of resp["file_data"]: with
\* is_async() False it calls run() without awaiting, so an async def run hands
\* back a coroutine and the subscript raises TypeError
Harness_downloader_call(conn, file_data, fate, source, yielded) ==
    IF ~is_async(conn) /\ Implements(conn).run = "async def"
    THEN Download(Raise("TypeError", <<>>), file_data, NoneValue, FALSE, "")
    ELSE Downloader_run(conn, file_data, fate, source, yielded)

(***************************************************************************)
(* Indexer.run as the pipeline consumes it: run() is called, each FileData *)
(* the generator yields is downloaded before the next one is pulled, and   *)
(* run() may be called again on the same indexer once it has returned.     *)
(* The remote and the configuration do not change between the runs.        *)
(***************************************************************************)
Indexers == {"mongodb", "confluence", "discord"}

\* a Confluence space: its key, the pages it holds in the order the API lists
\* them, and whether get_all_pages_from_space answers for it
Space(key, pages, readable) == [key |-> key, pages |-> pages, readable |-> readable]

\* what _get_space_ids and the spaces hold: n pages, the first p of them in ENG
ConfluenceRemotes ==
    UNION {{<<Space("ENG", [k \in 1..p |-> k], r1),
              Space("OPS", [k \in 1..(n - p) |-> p + k], r2)>> :
              p \in 0..n, r1 \in BOOLEAN, r2 \in BOOLEAN} : n \in 0..MaxItems}

\* connection_config.channels: n channels, the first one possibly listed twice
DiscordRemotes ==
    UNION {{[k \in 1..n |-> k], [k \in 1..(n + 1) |-> IF k <= n THEN k ELSE 1]} :
              n \in 1..MaxItems} \cup {<<>>}

\* ids[i : i + batch_size] for full slices only
id_batches_full_only(ids, batch_size) ==
    [b \in 1..(Len(ids) \div batch_size) |->
        SubSeq(ids, (b - 1) * batch_size + 1, b * batch_size)]

\* [ids[i : i + batch_size] for i in range(0, len(ids), batch_size)]
id_batches(ids, batch_size) ==
    [b \in 1..CeilDiv(Len(ids), batch_size) |->
        SubSeq(ids, (b - 1) * batch_size + 1, Min(b * batch_size, Len(ids)))]

RECURSIVE Ascending(_)
Ascending(S) ==
    IF S = {} THEN <<>>
    ELSE LET m == CHOOSE x \in S : \A y \in S : x <= y
         IN <<m>> \o Ascending(S \ {m})

RECURSIVE Factorial(_)
Factorial(n) == IF n = 0 THEN 1 ELSE n * Factorial(n - 1)

\* the seed-th order of the members of S, for seed in 1..Factorial(|S|)
RECURSIVE Ordered(_, _)
Ordered(S, seed) ==
    IF S = {} THEN <<>>
    ELSE LET n == Cardinality(S)
             x == Ascending(S)[((seed - 1) % n) + 1]
         IN <<x>> \o Ordered(S \ {x}, ((seed - 1) \div n) + 1)

\* list(set(channels)): each channel once, in the order the set iterates; the
\* string hashing of the running process (seed) fixes it, and it may be any
\* order of the channels
list_set(channels, seed) == Ordered(Range(channels), seed)

\* what the unchanged remote holds as its i-th item
StoredItem(conn, i) ==
    CASE conn = "mongodb" ->
            <<StrField("title", "doc " \o MongoDocId(i).s), IdField(MongoDocId(i)),
              IntField("n", 3)>>
      [] conn = "confluence" -> Page("<p>x</p>", "Home", 2, "2024-01-01", "2024-02-01")
      [] OTHER -> <<"hi", "">>

\* the items a remote holds
Held(conn, remote) ==
    IF conn = "confluence"
    THEN UNION {Range(remote[k].pages) : k \in 1..Len(remote)}
    ELSE Range(remote)

\* what the fetch for file_data does at a reachable remote that holds the items
\* held: it finds the item stored under the key it asks for, or none
StoredFate(conn, file_data, held) ==
    IF Downloader_fetch(conn, file_data) \cap held = {} THEN "missing" ELSE "found"

StoredSource(conn, file_data, held) ==
    IF Downloader_fetch(conn, file_data) \cap held = {} THEN NoItem
    ELSE StoredItem(conn, CHOOSE i \in Downloader_fetch(conn, file_data) \cap held : TRUE)

\* where an item stands: at is "yielded" | "bot.start" | "write" | "downloaded" |
\* "staged" | "uploaded" | "failed"; dest is the destination connector it was
\* staged for, messages the list on_ready has filled for a suspended
\* download_channel, staged the number of records of its staged file, error
\* the exception that ended its way
Item(at) ==
    [at |-> at, dest |-> "none", messages |-> <<>>, staged |-> 0,
     error |-> NoError]

\* the items whose DiscordDownloader.run coroutine is suspended
InFlight == {k \in 1..Len(iStage) : iStage[k].at \in {"bot.start", "write"}}

\* the calls of the consumer are capped
CallsLeft == iCalls < MaxCalls

\* a consumer that only lists the source hands no item to a downloader, and may
\* list the source again; any other hands every item it is given to the
\* downloader, as long as calls are left
Listing == iCalls = 0 /\ (iRuns > 0 \/ Len(iOut) > 1)
RunsLeft == iRuns < MaxRuns /\ iCalls = 0

\* the generator of run() can be advanced: the consumer has handed the item it
\* was given to a downloader, or it is not to hand it to one
Resumed == iPc = "running" \/ (iPc = "yielded" /\ (iCalls = 0 \/ ~CallsLeft))

\* run() has ended, by its return or by an exception, and no download is
\* suspended: the consumer holds every FileData the generator had for it and
\* goes on to the later steps
Ended == iPc \in {"done", "raised"} /\ InFlight = {}

\* the batch sizes tried for a staged file of n records: a larger one cuts the
\* file into the same single batch as n does
BatchSizes(n) == 1..Min(MaxBatch, IF n = 0 THEN 1 ELSE n)


\* the items downloaded and not yet handed to an upload stager
Downloaded == {k \in 1..Len(iStage) : iStage[k].at = "downloaded"}

\* the consumer takes the items for a step in the order it was given them
First(items) == {k \in items : \A j \in items : k <= j}

\* the items staged and not yet handed to the uploader
Staged == {k \in 1..Len(iStage) : iStage[k].at = "staged"}

\* the element files the partitioner leaves for the stager
PipelineInputs == SeqsUpTo({Element({"text"}, TRUE)}, MaxElems)

IndexInit ==
    /\ iConn \in Indexers
    /\ iRemote \in CASE iConn = "mongodb" -> {[k \in 1..n |-> k] : n \in 0..MaxItems}
                     [] iConn = "confluence" -> ConfluenceRemotes
                     [] OTHER -> DiscordRemotes
    /\ iBatch \in IF iConn = "mongodb" THEN 1..MaxBatch ELSE {1}
    /\ iSeed \in IF iConn = "discord"
                THEN 1..Factorial(Cardinality(Range(iRemote)))
                ELSE {1}
    /\ iClock = 1
    /\ iRuns = 0
    /\ iPc = "idle"
    /\ iTodo = <<>>
    /\ iSpaces = <<>>
    /\ iOut = <<>>
    /\ iFirst = <<>>
    /\ iErr = NoError
    /\ iDown = NoError
    /\ iStage = <<>>
    /\ iCalls = 0
    /\ uConn = "mongodb" /\ uElems = <<>> /\ uBatch = 1 /\ uPc = "idle"
    /\ uChunks = <<>> /\ uWrites = <<>> /\ uDest = <<>> /\ uLast = NoCall
    /\ uErr = NoError /\ uRuns = 0 /\ uBefore = <<>> /\ uWrappers = 0
    /\ sConn = "mongodb" /\ sInput = <<>> /\ sOutput = <<>> /\ sPc = "idle"
    /\ hConn = "mongodb" /\ hReach = "ok" /\ hItems = <<>> /\ hPc = "idle"
    /\ hIdx = 0 /\ hRunCalled = FALSE /\ hDownloads = 0 /\ hPre = <<>>
    /\ hPost = <<>> /\ hFate = "none" /\ hErr = NoError /\ hOverwrite = FALSE
    /\ dConn = "mongodb" /\ dOffset = 0 /\ dCalls = 0 /\ dFs = <<>> /\ dLast = NoDownload /\ dWrote = {}
    /\ dPending = <<>>
    /\ vData = <<>> /\ vDownloads = {} /\ vExpected = 0 /\ vExclude = <<>>
    /\ vExtend = <<>> /\ vFixtures = <<>> /\ vResult = "none" /\ vLast = "none"
    /\ vFresh = FALSE /\ vCalls = 0 /\ vOmit = NoOmit
    /\ tFile = "" /\ tPc = "idle" /\ tStaged = "None" /\ tRead = "None" /\ tFs = {}
    /\ cKind = "indexer" /\ cMode = "cooperative" /\ cConfluence = 0 /\ cBuilt = 0
    /\ cPc = <<>> /\ cRets = <<>> /\ cCalls = 0

\* MongoDBIndexer.run up to its loop: the ids are read and cut into batches
MongoDBIndexer_run_open ==
    /\ iConn = "mongodb"
    /\ iPc \in {"idle", "done"}
    /\ RunsLeft
    /\ InFlight = {}
    /\ LET ids == [k \in 1..Len(iRemote) |-> MongoDocId(iRemote[k])]
       IN iTodo' = Flatten(id_batches(ids, iBatch))
    /\ iOut' = <<>>
    /\ iStage' = <<>>
    /\ iPc' = "running"
    /\ UNCHANGED iCalls
    /\ UNCHANGED <<iConn, iRemote, iBatch, iSeed, iClock, iRuns, iSpaces, iFirst, iErr,
                   iDown>>
    /\ UNCHANGED <<uvars, svars, hvars, dvars, vvars, tvars, cvars>>

\* ConfluenceIndexer.run up to its loop: space_ids = self._get_space_ids()
ConfluenceIndexer_run_open ==
    /\ iConn = "confluence"
    /\ iPc \in {"idle", "done"}
    /\ RunsLeft
    /\ InFlight = {}
    /\ iSpaces' = iRemote
    /\ iTodo' = <<>>
    /\ iOut' = <<>>
    /\ iStage' = <<>>
    /\ iPc' = "running"
    /\ UNCHANGED iCalls
    /\ UNCHANGED <<iConn, iRemote, iBatch, iSeed, iClock, iRuns, iFirst, iErr, iDown>>
    /\ UNCHANGED <<uvars, svars, hvars, dvars, vvars, tvars, cvars>>

\* DiscordIndexer.run with processed_channels kept on the indexer between calls
DiscordIndexer_run_open_keeps_processed ==
    /\ iConn = "discord"
    /\ iPc \in {"idle", "done"}
    /\ RunsLeft
    /\ InFlight = {}
    /\ iTodo' = SelectSeq(list_set(iRemote, iSeed),
                          LAMBDA c : \A k \in 1..Len(iFirst) :
                                        iFirst[k].identifier # ChannelId(c))
    /\ iOut' = <<>>
    /\ iStage' = <<>>
    /\ iPc' = "running"
    /\ UNCHANGED iCalls
    /\ UNCHANGED <<iConn, iRemote, iBatch, iSeed, iClock, iRuns, iSpaces, iFirst, iErr,
                   iDown>>
    /\ UNCHANGED <<uvars, svars, hvars, dvars, vvars, tvars, cvars>>

\* DiscordIndexer.run up to its loop: list(channels_to_process) of a fresh set
DiscordIndexer_run_open ==
    /\ iConn = "discord"
    /\ iPc \in {"idle", "done"}
    /\ RunsLeft
    /\ InFlight = {}
    /\ iTodo' = list_set(iRemote, iSeed)
    /\ iOut' = <<>>
    /\ iStage' = <<>>
    /\ iPc' = "running"
    /\ UNCHANGED iCalls
    /\ UNCHANGED <<iConn, iRemote, iBatch, iSeed, iClock, iRuns, iSpaces, iFirst, iErr,
                   iDown>>
    /\ UNCHANGED <<uvars, svars, hvars, dvars, vvars, tvars, cvars>>

\* for space_id in space_ids: doc_ids = self._get_docs_ids_within_one_space(...);
\* the client library's exception for a space it cannot list leaves run()
ConfluenceIndexer_run_next_space ==
    /\ iConn = "confluence"
    /\ Resumed
    /\ iTodo = <<>>
    /\ iSpaces # <<>>
    /\ LET space == Head(iSpaces)
       IN IF space.readable
          THEN /\ iTodo' = [k \in 1..Len(space.pages) |->
                              [space_id |-> space.key, doc_id |-> PageId(space.pages[k])]]
               /\ iSpaces' = Tail(iSpaces)
               /\ UNCHANGED <<iPc, iErr>>
          ELSE /\ iPc' = "raised"
               /\ iErr' = Raise(ClientError("service"), <<space.key>>)
               /\ UNCHANGED <<iTodo, iSpaces>>
    /\ UNCHANGED iCalls
    /\ UNCHANGED <<iConn, iRemote, iBatch, iSeed, iClock, iRuns, iOut, iFirst, iDown,
                   iStage>>
    /\ UNCHANGED <<uvars, svars, hvars, dvars, vvars, tvars, cvars>>

\* the effect of a yield: the FileData goes to the consumer; now is the last
\* reading of the clock the indexer took for it
Yielded(file_data, now) ==
    /\ iOut' = Append(iOut, file_data)
    /\ iStage' = Append(iStage, Item("yielded"))
    /\ iTodo' = Tail(iTodo)
    /\ iClock' = now + 1
    /\ iPc' = "yielded"
    /\ UNCHANGED iCalls
    /\ UNCHANGED <<iConn, iRemote, iBatch, iSeed, iRuns, iSpaces, iFirst, iErr,
                   iDown>>
    /\ UNCHANGED <<uvars, svars, hvars, dvars, vvars, tvars, cvars>>

\* MongoDBIndexer.run: one pass of the loop over the ids of the batches
MongoDBIndexer_run_yield ==
    /\ iConn = "mongodb"
    /\ Resumed
    /\ iTodo # <<>>
    /\ Yielded(MongoDBIndexer_file_data(Head(iTodo), iClock), iClock)

\* ConfluenceIndexer.run: one pass of the loop over the pages of a space
ConfluenceIndexer_run_yield ==
    /\ iConn = "confluence"
    /\ Resumed
    /\ iTodo # <<>>
    /\ Yielded(ConfluenceIndexer_file_data(Head(iTodo).space_id, Head(iTodo).doc_id),
               iClock)

\* DiscordIndexer.run: one pass of the loop over the channels;
\* get_channel_file_data reads the clock twice, for date_created and for
\* date_processed, and the clock may have moved on between the two
DiscordIndexer_run_yield ==
    /\ iConn = "discord"
    /\ Resumed
    /\ iTodo # <<>>
    /\ \E now2 \in {iClock, iClock + 1} :
          Yielded(DiscordIndexer_get_channel_file_data(ChannelId(Head(iTodo)), iClock,
                                                       now2), now2)

\* what the remote answers to the fetch for file_data: what it holds under the
\* key asked for, or a failure
PipelineFates(file_data) ==
    {StoredFate(iConn, file_data, Held(iConn, iRemote))} \cup FailureKinds

PipelineSource(file_data, fate) ==
    IF fate = "missing" THEN NoItem
    ELSE StoredSource(iConn, file_data, Held(iConn, iRemote))

\* the lists of messages on_ready may leave for file_data, over the fates of
\* the fetch and the messages channel.history yielded before it ended
PipelineMessages(file_data) ==
    UNION {{DiscordDownloader_on_ready(fate, PipelineSource(file_data, fate), yielded) :
               yielded \in FetchYields(iConn, fate, PipelineSource(file_data, fate))} :
           fate \in PipelineFates(file_data)}

\* the consumer of the generator hands the FileData it was given to the run of
\* a blocking downloader (MongoDB, Confluence), which works on that same
\* FileData object and writes the file; after the call, returned or raised,
\* the consumer goes on with the generator
Pipeline_download ==
    /\ iConn # "discord"
    /\ CallsLeft /\ ~Listing
    /\ iPc = "yielded"
    /\ LET k == Len(iOut)
           file_data == iOut[k]
       IN \E fate \in PipelineFates(file_data) :
             LET source == IF fate = "found" THEN PipelineSource(file_data, fate)
                           ELSE NoItem
                 r == Downloader_run(iConn, file_data, fate, source, 0)
             IN /\ iOut' = [iOut EXCEPT ![k] = r.file_data]
                /\ iDown' = r.outcome
                /\ iStage' = [iStage EXCEPT
                                 ![k].at = IF r.outcome.kind = "return"
                                           THEN "downloaded" ELSE "failed",
                                 ![k].error = IF r.outcome.kind = "return"
                                              THEN NoError ELSE r.outcome]
                /\ dFs' = IF r.written THEN open_w_write(dFs, r.path, r.content)
                          ELSE dFs
    /\ iPc' = "running"
    /\ iCalls' = iCalls + 1
    /\ UNCHANGED <<iConn, iRemote, iBatch, iSeed, iClock, iRuns, iTodo, iSpaces,
                   iFirst, iErr>>
    /\ UNCHANGED <<dConn, dOffset, dCalls, dLast, dWrote, dPending>>
    /\ UNCHANGED <<uvars, svars, hvars, vvars, tvars, cvars>>

\* a task of the consumer awaits DiscordDownloader.run on the FileData it was
\* given: run and download_channel up to `await bot.start(...)`, where the
\* coroutine is suspended with the download path computed and its parent
\* directory made; the event loop is free and the generator can be resumed
Pipeline_download_call ==
    /\ iConn = "discord"
    /\ CallsLeft /\ ~Listing
    /\ iPc = "yielded"
    /\ Cardinality(InFlight) < Cardinality(Tasks)
    /\ LET k == Len(iOut)
           now == DiscordDownloader_run(iOut[k], "missing", NoItem, 0)
       IN IF now.outcome.kind # "return"
          THEN /\ iStage' = [iStage EXCEPT ![k].at = "failed",
                                           ![k].error = now.outcome]
               /\ iDown' = now.outcome
          ELSE /\ iStage' = [iStage EXCEPT ![k].at = "bot.start"]
               /\ UNCHANGED iDown
    /\ iPc' = "running"
    /\ iCalls' = iCalls + 1
    /\ UNCHANGED <<iConn, iRemote, iBatch, iSeed, iClock, iRuns, iTodo, iSpaces,
                   iOut, iFirst, iErr>>
    /\ UNCHANGED <<uvars, svars, hvars, dvars, vvars, tvars, cvars>>

\* a suspended coroutine is resumed inside bot.start: on_ready collects the
\* messages of the channel, or the fetch fails after some of them; the
\* coroutine is suspended again (await bot.close(), the return of bot.start)
Pipeline_download_bot_start ==
    /\ \E k \in InFlight :
          /\ iStage[k].at = "bot.start"
          /\ \E messages \in PipelineMessages(iOut[k]) :
                iStage' = [iStage EXCEPT ![k].at = "write",
                                         ![k].messages = messages]
    /\ UNCHANGED iCalls
    /\ UNCHANGED <<iConn, iRemote, iBatch, iSeed, iClock, iRuns, iPc, iTodo, iSpaces,
                   iOut, iFirst, iErr, iDown>>
    /\ UNCHANGED <<uvars, svars, hvars, dvars, vvars, tvars, cvars>>

\* a suspended coroutine is resumed after bot.start: the file is opened with
\* mode "w", the messages are written and run returns its response
Pipeline_download_write ==
    /\ \E k \in InFlight :
          /\ iStage[k].at = "write"
          /\ LET r == DiscordDownloader_write_messages(
                          iOut[k], get_download_path(iOut[k]),
                          iStage[k].messages)
             IN /\ iOut' = [iOut EXCEPT ![k] = r.file_data]
                /\ iDown' = r.outcome
                /\ iStage' = [iStage EXCEPT ![k].at = "downloaded",
                                            ![k].messages = <<>>]
                /\ dFs' = open_w_write(dFs, r.path, r.content)
    /\ UNCHANGED iCalls
    /\ UNCHANGED <<iConn, iRemote, iBatch, iSeed, iClock, iRuns, iPc, iTodo, iSpaces,
                   iFirst, iErr>>
    /\ UNCHANGED <<dConn, dOffset, dCalls, dLast, dWrote, dPending>>
    /\ UNCHANGED <<uvars, svars, hvars, vvars, tvars, cvars>>

\* the FileData object handed to UploadStager.run, as the call leaves it:
\* MongoDBUploadStager.run names file_data only in its parameter list,
\* AzureCognitiveSearchUploadStager.run receives it in **kwargs, which it never
\* reads
UploadStager_run_file_data(conn, file_data) == file_data

\* the FileData object handed to Uploader.run, as the call leaves it: both
\* run(self, path, file_data, **kwargs) read the staged file at path and name
\* file_data nowhere in their bodies
Uploader_run_file_data(conn, file_data) == file_data

\* UploadStager.run on an elements file: the lists of records it may write to
\* the staged file (the Azure stager gives each record a fresh uuid)
UploadStager_run(conn, elements) ==
    IF conn = "azure_cognitive_search"
    THEN {[i \in 1..Len(elements) |-> conform_dict(elements[i], uuids[i])] :
             uuids \in [1..Len(elements) -> UUIDs]}
    ELSE {elements}

\* after the indexing, the consumer hands a downloaded item's elements file and
\* FileData to the run of a destination's upload stager, which writes the staged file; open() of an
\* elements file that is not there raises and nothing is written
Pipeline_stage ==
    /\ Ended
    /\ CallsLeft
    /\ \E k \in First(Downloaded), conn \in Stagers, readable \in BOOLEAN :
          /\ iOut' = [iOut EXCEPT ![k] = UploadStager_run_file_data(conn, @)]
          /\ sConn' = conn
          /\ IF readable
             THEN \E elements \in PipelineInputs :
                     \E output \in UploadStager_run(conn, elements) :
                        /\ sInput' = elements
                        /\ sOutput' = output
                        /\ sPc' = "done"
                        /\ iStage' = [iStage EXCEPT ![k].at = "staged",
                                                    ![k].dest = conn,
                                                    ![k].staged = Len(output)]
             ELSE /\ sPc' = "raised"
                  /\ UNCHANGED <<sInput, sOutput>>
                  /\ iStage' = [iStage EXCEPT
                                   ![k].at = "failed", ![k].dest = conn,
                                   ![k].error = Raise("FileNotFoundError", <<>>)]
    /\ iCalls' = iCalls + 1
    /\ UNCHANGED <<iConn, iRemote, iBatch, iSeed, iClock, iRuns, iPc, iTodo, iSpaces,
                   iFirst, iErr, iDown>>
    /\ UNCHANGED <<uvars, hvars, dvars, vvars, tvars, cvars>>

\* the consumer hands a staged item's file and FileData to the run of the
\* destination's uploader: the records are read, cut into batches and written
\* batch by batch until the generator is exhausted or a write call raises
Pipeline_upload ==
    /\ Ended
    /\ CallsLeft
    /\ \E k \in First(Staged) :
       \E batch_size \in BatchSizes(iStage[k].staged) :
          LET conn == iStage[k].dest
              elements_dict == [i \in 1..iStage[k].staged |-> i]
          IN \E end \in Uploader_run(conn, batch_generator(elements_dict, batch_size),
                                     uDest) :
                /\ iOut' = [iOut EXCEPT ![k] = Uploader_run_file_data(conn, @)]
                /\ iStage' = [iStage EXCEPT
                                 ![k].at = IF end.pc = "done" THEN "uploaded"
                                           ELSE "failed",
                                 ![k].error = end.err]
                /\ uConn' = conn
                /\ uElems' = elements_dict
                /\ uBatch' = batch_size
                /\ uPc' = end.pc
                /\ uChunks' = end.chunks
                /\ uWrites' = end.writes
                /\ uDest' = end.dest
                /\ uLast' = end.last
                /\ uErr' = end.err
    /\ uRuns' = uRuns + 1
    /\ uBefore' = uDest
    /\ UNCHANGED uWrappers
    /\ iCalls' = iCalls + 1
    /\ UNCHANGED <<iConn, iRemote, iBatch, iSeed, iClock, iRuns, iPc, iTodo, iSpaces,
                   iFirst, iErr, iDown>>
    /\ UNCHANGED <<svars, hvars, dvars, vvars, tvars, cvars>>

\* the generator is exhausted: run() returns
Indexer_run_return ==
    /\ Resumed
    /\ iTodo = <<>>
    /\ iSpaces = <<>>
    /\ iPc' = "done"
    /\ iRuns' = iRuns + 1
    /\ iFirst' = IF iRuns = 0 THEN iOut ELSE iFirst
    /\ UNCHANGED iCalls
    /\ UNCHANGED <<iConn, iRemote, iBatch, iSeed, iClock, iTodo, iSpaces, iOut, iErr,
                   iDown, iStage>>
    /\ UNCHANGED <<uvars, svars, hvars, dvars, vvars, tvars, cvars>>

IndexNext ==
    \/ MongoDBIndexer_run_open
    \/ ConfluenceIndexer_run_open
    \/ DiscordIndexer_run_open
    \/ ConfluenceIndexer_run_next_space
    \/ MongoDBIndexer_run_yield
    \/ ConfluenceIndexer_run_yield
    \/ DiscordIndexer_run_yield
    \/ Pipeline_download
    \/ Pipeline_download_call
    \/ Pipeline_download_bot_start
    \/ Pipeline_download_write
    \/ Pipeline_stage
    \/ Pipeline_upload
    \/ Indexer_run_return

SpecIndex == IndexInit /\ [][IndexNext]_vars

(***************************************************************************)
(* Fixture validation (validation.py).  A JSON value is a record: t is its *)
(* type, s the text of a string or the digits of a number, d the members   *)
(* of a dict as a function from its keys.  A dotted field of               *)
(* exclude_fields is held split at its dots, as the sequence of its keys.  *)
(***************************************************************************)
NoMembers == [k \in {} |-> ""]
JStr(s) == [t |-> "str", s |-> s, d |-> NoMembers]
JInt(n) == [t |-> "int", s |-> ToString(n), d |-> NoMembers]
JNull == [t |-> "None", s |-> "", d |-> NoMembers]
JDict(d) == [t |-> "dict", s |-> "", d |-> d]

\* an Optional[str] field in a dict
JOptional(s) == IF s = NoneValue THEN JNull ELSE JStr(s)

\* a dict of strings, such as record_locator
JStrDict(m) == JDict([k \in DOMAIN m |-> JStr(m[k])])

\* the metadata of a FileData in its dict
JMetadata(metadata) ==
    JDict([k \in DOMAIN metadata |->
              CASE k = "record_locator" -> JStrDict(metadata[k])
                [] k = "version" -> JInt(metadata[k])
                [] OTHER -> JOptional(metadata[k])])

\* FileData.to_dict(): the fields of the FileData as a dict of JSON values
to_dict(file_data) ==
    LET common ==
            [identifier |-> JStr(file_data.identifier),
             connector_type |-> JStr(file_data.connector_type),
             source_identifiers |->
                 IF file_data.source_identifiers = NoSourceIdentifiers
                 THEN JNull
                 ELSE JStrDict(file_data.source_identifiers),
             metadata |-> JMetadata(file_data.metadata),
             local_download_path |-> JOptional(file_data.local_download_path)]
    IN IF file_data.connector_type = "confluence"
       THEN [source_url |-> JStr(file_data.source_url)] @@ common
       ELSE [additional_metadata |-> JStrDict(file_data.additional_metadata)] @@ common

\* ValidationConfigs.exclude_fields by default
DefaultExcludeFields == <<<<"local_download_path">>, <<"metadata", "date_processed">>>>

\* d.pop(key, None) on a dict held as a function
pop(d, key) == [k \in DOMAIN d \ {key} |-> d[k]]

\* one pass of the loop of omit_ignored_fields below the dict d for the keys
\* vals of an excluded field: the dicts on the way are walked with .get(val, {}),
\* the last key is popped, "*" clears the dict reached.  ok is FALSE when a
\* value on the way is not a dict (the call raises AttributeError).
RECURSIVE omit_field(_, _)
omit_field(d, vals) ==
    IF Len(vals) = 1
    THEN [ok |-> TRUE, d |-> IF vals[1] = "*" THEN NoMembers ELSE pop(d, vals[1])]
    ELSE IF vals[1] \notin DOMAIN d
    THEN [ok |-> TRUE, d |-> d]
    ELSE IF d[vals[1]].t # "dict"
    THEN [ok |-> FALSE, d |-> d]
    ELSE LET below == omit_field(d[vals[1]].d, Tail(vals))
         IN [ok |-> below.ok, d |-> [d EXCEPT ![vals[1]] = JDict(below.d)]]

\* ValidationConfigs.omit_ignored_fields(data) for the fields get_exclude_fields
\* returned
RECURSIVE omit_ignored_fields(_, _)
omit_ignored_fields(exclude_fields, data) ==
    IF exclude_fields = <<>>
    THEN [ok |-> TRUE, d |-> data]
    ELSE LET first == omit_field(data, Head(exclude_fields))
         IN IF first.ok
            THEN omit_ignored_fields(Tail(exclude_fields), first.d)
            ELSE first

\* the dict handed to omit_ignored_fields as the call leaves it: copied_data is
\* data.copy(), which holds the same nested dicts as data, so what the loop
\* removes below a top-level key is removed from data too, while a top-level
\* pop or clear reaches copied_data only
RECURSIVE omit_ignored_fields_data(_, _, _)
omit_ignored_fields_data(exclude_fields, copied_data, data) ==
    IF exclude_fields = <<>>
    THEN data
    ELSE LET vals == Head(exclude_fields)
             first == omit_field(copied_data, vals)
             shared == Len(vals) > 1 /\ vals[1] \in DOMAIN copied_data
         IN IF ~first.ok
            THEN data
            ELSE omit_ignored_fields_data(
                     Tail(exclude_fields), first.d,
                     IF shared THEN [data EXCEPT ![vals[1]] = first.d[vals[1]]]
                     ELSE data)

\* json.dump(value, f): the JSON text of a value
RECURSIVE json_dump(_)
json_dump(value) ==
    CASE value.t = "str" -> [t |-> "string", s |-> value.s, d |-> NoMembers]
      [] value.t = "int" -> [t |-> "number", s |-> value.s, d |-> NoMembers]
      [] value.t = "None" -> [t |-> "null", s |-> "", d |-> NoMembers]
      [] OTHER -> [t |-> "object", s |-> "",
                   d |-> [k \in DOMAIN value.d |-> json_dump(value.d[k])]]

\* json.load(f): the value a JSON text holds
RECURSIVE json_load(_)
json_load(text) ==
    CASE text.t = "string" -> JStr(text.s)
      [] text.t = "number" -> [t |-> "int", s |-> text.s, d |-> NoMembers]
      [] text.t = "null" -> JNull
      [] OTHER -> JDict([k \in DOMAIN text.d |-> json_load(text.d[k])])

\* DeepDiff(t1, t2): whether the diff holds anything
DeepDiff(t1, t2) == t1 # t2

\* ValidationConfigs.get_exclude_fields: self.exclude_fields after it has been
\* extended, in place, with exclude_fields_extend
get_exclude_fields(exclude_fields, exclude_fields_extend) ==
    exclude_fields \o exclude_fields_extend

\* test_output_dir / "file_data": a directory is whether it exists and its files
file_data_dir(test_output_dir) ==
    [exists |-> test_output_dir.exists, files |-> test_output_dir.file_data]

\* check_files: the exception that leaves it, "none" when it returns; get_files
\* raises FileNotFoundError (iterdir) for a directory that does not exist, the
\* assertion fails on a non-empty symmetric difference
check_files(expected_output_dir, all_file_data) ==
    LET expected_files == DOMAIN expected_output_dir.files
        current_files == {all_file_data[k].identifier \o ".json" :
                             k \in 1..Len(all_file_data)}
        diff == (expected_files \ current_files) \cup (current_files \ expected_files)
    IN IF ~expected_output_dir.exists THEN "FileNotFoundError"
       ELSE IF diff = {} THEN "none" ELSE "AssertionError"

\* check_contents: the exception that leaves it ("none" when it returns),
\* found_diff as the loop left it, and self.exclude_fields as the calls of
\* get_exclude_fields made so far leave it.  The loop ends at the first file
\* that cannot be opened (FileNotFoundError) and at the first call of
\* omit_ignored_fields that raises (AttributeError); the assertion on
\* found_diff comes after the loop.
RECURSIVE check_contents(_, _, _, _)
check_contents(expected_output_dir, all_file_data, exclude_fields, extend) ==
    IF all_file_data = <<>>
    THEN [found_diff |-> FALSE, error |-> "none", exclude_fields |-> exclude_fields]
    ELSE LET file_data == Head(all_file_data)
             file_data_path == file_data.identifier \o ".json"
             current_file_data_contents == to_dict(file_data)
             fields1 == get_exclude_fields(exclude_fields, extend)
             fields2 == get_exclude_fields(fields1, extend)
         IN IF ~expected_output_dir.exists
               \/ file_data_path \notin DOMAIN expected_output_dir.files
            THEN [found_diff |-> FALSE, error |-> "FileNotFoundError",
                  exclude_fields |-> exclude_fields]
            ELSE LET expected_file_data_contents ==
                         json_load(expected_output_dir.files[file_data_path])
                     expected == omit_ignored_fields(fields1,
                                                     expected_file_data_contents.d)
                     current == omit_ignored_fields(fields2, current_file_data_contents)
                 IN IF ~expected.ok
                    THEN [found_diff |-> FALSE, error |-> "AttributeError",
                          exclude_fields |-> fields1]
                    ELSE IF ~current.ok
                    THEN [found_diff |-> FALSE, error |-> "AttributeError",
                          exclude_fields |-> fields2]
                    ELSE LET rest == check_contents(expected_output_dir,
                                                    Tail(all_file_data), fields2, extend)
                             found_diff == DeepDiff(expected.d, current.d)
                                              \/ rest.found_diff
                         IN [found_diff |-> found_diff,
                             error |-> IF rest.error \notin {"none", "AssertionError"}
                                       THEN rest.error
                                       ELSE IF found_diff THEN "AssertionError"
                                       ELSE "none",
                             exclude_fields |-> rest.exclude_fields]

\* run_expected_results_validation: "pass" when it returns, else the exception
\* of check_files or of check_contents that leaves it
run_expected_results_validation(expected_output_dir, all_file_data, exclude_fields, extend) ==
    IF check_files(expected_output_dir, all_file_data) # "none"
    THEN [result |-> check_files(expected_output_dir, all_file_data),
          exclude_fields |-> exclude_fields]
    ELSE LET c == check_contents(expected_output_dir, all_file_data, exclude_fields,
                                 extend)
         IN [result |-> IF c.error = "none" THEN "pass" ELSE c.error,
             exclude_fields |-> c.exclude_fields]

\* the orders in which dir_path.iterdir() may list the files of a directory
get_files(files) == {s \in [1..Cardinality(files) -> files] : Range(s) = files}

\* download_files.sort()
sort(download_files) == Ascending(Range(download_files))

\* ValidationConfigs.run_download_dir_validation: whether the assertion holds;
\* expected_num_files = 0 stands for None as well
run_download_dir_validation(expected_num_files, download_dir) ==
    IF expected_num_files # 0
    THEN Cardinality(download_dir) = expected_num_files
    ELSE TRUE

\* run_directory_structure_validation: whether the assertion holds
run_directory_structure_validation(directory_structure, download_files) ==
    directory_structure = download_files

\* the fixture files written for all_file_data, a later FileData overwriting the
\* file of an earlier one with the same identifier
RECURSIVE file_data_output(_)
file_data_output(all_file_data) ==
    IF all_file_data = <<>> THEN [name \in {} |-> JNull]
    ELSE LET last == all_file_data[Len(all_file_data)]
             before == file_data_output(SubSeq(all_file_data, 1, Len(all_file_data) - 1))
         IN [name \in DOMAIN before \cup {last.identifier \o ".json"} |->
                IF name = last.identifier \o ".json"
                THEN json_dump(JDict(to_dict(last)))
                ELSE before[name]]

\* update_fixtures: the fixture directory is removed if there, made and
\* written from all_file_data, the sorted listing of the download directory is
\* recorded
update_fixtures(all_file_data, download_files) ==
    [exists |-> TRUE,
     file_data |-> file_data_output(all_file_data),
     directory_structure |-> sort(download_files)]

\* a test_output_dir that does not exist
NoFixtures ==
    [exists |-> FALSE, file_data |-> [name \in {} |-> JNull], directory_structure |-> <<>>]

\* the files of the download directory after the downloads of all_file_data: k
\* stands for the file of the k-th FileData, a path written twice being one file
download_dir_files(all_file_data) ==
    {k \in 1..Len(all_file_data) :
        /\ all_file_data[k].local_download_path # NoneValue
        /\ \A j \in 1..(k - 1) :
              all_file_data[j].local_download_path # all_file_data[k].local_download_path}

\* run_all_validations: "pass" when it returns, else the exception that leaves
\* it (the two callbacks of the configuration are unset)
run_all_validations(expected_num_files, exclude_fields, extend, all_file_data, download_dir, download_files, test_output_dir) ==
    IF ~run_download_dir_validation(expected_num_files, download_dir)
    THEN [result |-> "AssertionError", exclude_fields |-> exclude_fields]
    ELSE LET r == run_expected_results_validation(file_data_dir(test_output_dir),
                      all_file_data, exclude_fields, extend)
         IN IF r.result # "pass" THEN r
            ELSE IF ~test_output_dir.exists
            THEN [r EXCEPT !.result = "FileNotFoundError"]
            ELSE IF ~run_directory_structure_validation(
                        test_output_dir.directory_structure, sort(download_files))
            THEN [r EXCEPT !.result = "AssertionError"]
            ELSE r

\* the post-download FileData of the k-th item
PostDownload(k) ==
    LET file_data == Indexer_file_data("mongodb", k, 1)
    IN Downloader_run("mongodb", file_data, "found",
                      StoredSource("mongodb", file_data, 1..MaxItems), 0).file_data

(***************************************************************************)
(* source_connector_validation at work: the configuration and the         *)
(* fixtures it is started with, and its steps.                             *)
(***************************************************************************)
HarnessInit ==
    /\ hConn \in HarnessConnectors
    /\ hReach \in {"ok"} \cup FailureKinds
    /\ \E n \in 0..MaxItems : hItems = [i \in 1..n |-> i]
    /\ hOverwrite \in BOOLEAN
    /\ hPc = "precheck"
    /\ hIdx = 0
    /\ hRunCalled = FALSE
    /\ hDownloads = 0
    /\ hPre = <<>>
    /\ hPost = <<>>
    /\ hFate = "none"
    /\ hErr = NoError
    /\ uConn = "mongodb" /\ uElems = <<>> /\ uBatch = 1 /\ uPc = "idle"
    /\ uChunks = <<>> /\ uWrites = <<>> /\ uDest = <<>> /\ uLast = NoCall
    /\ uErr = NoError /\ uRuns = 0 /\ uBefore = <<>> /\ uWrappers = 0
    /\ sConn = "mongodb" /\ sInput = <<>> /\ sOutput = <<>> /\ sPc = "idle"
    /\ dConn = "mongodb" /\ dOffset = 0 /\ dCalls = 0 /\ dFs = <<>> /\ dLast = NoDownload /\ dWrote = {}
    /\ dPending = <<>>
    /\ iConn = "mongodb" /\ iRemote = <<>> /\ iBatch = 1 /\ iClock = 1
    /\ iSeed \in IF hConn = "discord" THEN 1..Factorial(Len(hItems)) ELSE {1}
    /\ iRuns = 0 /\ iPc = "idle" /\ iTodo = <<>> /\ iSpaces = <<>> /\ iOut = <<>>
    /\ iFirst = <<>> /\ iErr = NoError /\ iDown = NoError /\ iStage = <<>>
    /\ iCalls = 0
    \* configs and the fixtures under configs.test_output_dir(): none, or those
    \* an earlier run recorded for the first m documents
    /\ vData = <<>> /\ vDownloads = {}
    /\ vExpected \in {0, Len(hItems)}
    /\ vExclude = DefaultExcludeFields
    /\ vExtend \in {<<>>, <<<<"identifier", "x">>>>}
    /\ \/ vFixtures = NoFixtures
       \/ \E n \in 0..MaxItems :
             LET recorded == [k \in 1..n |-> PostDownload(k)]
             IN vFixtures = update_fixtures(recorded,
                                            Ascending(download_dir_files(recorded)))
    /\ vResult = "none" /\ vLast = "none"
    /\ vFresh = FALSE /\ vCalls = 0 /\ vOmit = NoOmit
    /\ tFile \in UploadFiles
    /\ tPc = "start"
    /\ tStaged = NoneValue
    /\ tRead = NoneValue
    /\ tFs = {tFile}
    /\ cKind = "indexer" /\ cMode = "cooperative" /\ cConfluence = 0 /\ cBuilt = 0
    /\ cPc = <<>> /\ cRets = <<>> /\ cCalls = 0

\* indexer.precheck(), then download_dir = downloader.download_config.download_dir:
\* an exception of precheck leaves source_connector_validation, and so does the
\* AttributeError of a downloader without the attribute download_config
Harness_precheck ==
    /\ hPc = "precheck"
    /\ LET outcome == Indexer_precheck(hConn, hReach)
       IN IF outcome.kind # "return"
          THEN hPc' = "raised" /\ hErr' = outcome
          ELSE IF ~download_config(hConn)
          THEN hPc' = "raised" /\ hErr' = Raise("AttributeError", <<>>)
          ELSE hPc' = "index" /\ UNCHANGED hErr
    /\ UNCHANGED <<hConn, hReach, hItems, hIdx, hRunCalled, hDownloads, hPre, hPost,
                   hFate, hOverwrite>>
    /\ UNCHANGED <<uvars, svars, dvars, ivars, vvars, tvars, cvars>>

\* the items in the order indexer.run() yields them: the remote's order, for
\* Discord the order in which list(set(channels)) iterates in this process
Harness_order ==
    IF hConn = "discord" THEN list_set(hItems, iSeed) ELSE hItems

\* for file_data in indexer.run(): the next FileData is pulled and its
\* pre-download copy recorded, or the generator is exhausted
Harness_index_next ==
    /\ hPc = "index"
    /\ hRunCalled' = TRUE
    /\ IF hIdx < Len(hItems)
       THEN /\ hIdx' = hIdx + 1
            /\ hPre' = Append(hPre, replace(Indexer_file_data(hConn, Harness_order[hIdx + 1], 0)))
            /\ hPc' = "download"
       ELSE /\ hPc' = "validate"
            /\ UNCHANGED <<hIdx, hPre>>
    /\ UNCHANGED <<hConn, hReach, hItems, hDownloads, hPost, hFate, hErr, hOverwrite>>
    /\ UNCHANGED <<uvars, svars, dvars, ivars, vvars, tvars, cvars>>

\* the loop of source_connector_validation recording file_data itself as the
\* pre-download FileData, without replace()
Harness_download_without_replace ==
    /\ hPc = "download"
    /\ hDownloads' = hDownloads + 1
    /\ \E fate \in FetchFates(hConn, Indexer_file_data(hConn, Harness_order[hIdx], 0),
                              Range(hItems)) :
          \E source \in FetchSources(hConn, Indexer_file_data(hConn, Harness_order[hIdx], 0),
                                     fate, Range(hItems)) :
             LET file_data == Indexer_file_data(hConn, Harness_order[hIdx], 0)
                 r == Harness_downloader_call(hConn, file_data, fate, source,
                                              Min(HistoryLimit, Len(source)))
             IN /\ hFate' = fate
                /\ hPre' = [hPre EXCEPT ![hIdx] = r.file_data]
                /\ IF r.outcome.kind = "return"
                   THEN /\ hPost' = Append(hPost, replace(r.file_data))
                        /\ hPc' = "index"
                        /\ UNCHANGED hErr
                   ELSE /\ hPc' = "raised"
                        /\ hErr' = r.outcome
                        /\ UNCHANGED hPost
    /\ UNCHANGED <<hConn, hReach, hItems, hIdx, hRunCalled, hOverwrite>>
    /\ UNCHANGED <<uvars, svars, dvars, ivars, vvars, tvars, cvars>>

\* resp = downloader.run(file_data=file_data); the post-download copy is
\* recorded, or the downloader's exception leaves source_connector_validation
Harness_download ==
    /\ hPc = "download"
    /\ hDownloads' = hDownloads + 1
    /\ \E fate \in FetchFates(hConn, Indexer_file_data(hConn, Harness_order[hIdx], 0),
                              Range(hItems)) :
          \E source \in FetchSources(hConn, Indexer_file_data(hConn, Harness_order[hIdx], 0),
                                     fate, Range(hItems)) :
             LET file_data == Indexer_file_data(hConn, Harness_order[hIdx], 0)
                 r == Harness_downloader_call(hConn, file_data, fate, source,
                                              Min(HistoryLimit, Len(source)))
             IN /\ hFate' = fate
                \* the snapshot shares its metadata object with file_data
                /\ hPre' = [hPre EXCEPT ![hIdx].metadata = r.file_data.metadata]
                /\ IF r.outcome.kind = "return"
                   THEN /\ hPost' = Append(hPost, replace(r.file_data))
                        /\ hPc' = "index"
                        /\ UNCHANGED hErr
                   ELSE /\ hPc' = "raised"
                        /\ hErr' = r.outcome
                        /\ UNCHANGED hPost
    /\ UNCHANGED <<hConn, hReach, hItems, hIdx, hRunCalled, hOverwrite>>
    /\ UNCHANGED <<uvars, svars, dvars, ivars, vvars, tvars, cvars>>

\* after the loop: run_all_validations on the two lists, the download
\* directory and the fixtures, whose exception leaves
\* source_connector_validation, or with overwrite_fixtures update_fixtures,
\* which rewrites the fixtures
Harness_finish ==
    /\ hPc = "validate"
    /\ vData' = hPost
    /\ vDownloads' = download_dir_files(hPost)
    /\ vCalls' = vCalls + 1
    /\ \E download_files \in get_files(download_dir_files(hPost)) :
          IF hOverwrite
          THEN /\ vFixtures' = update_fixtures(hPost, download_files)
               /\ vLast' = "update_fixtures"
               /\ vFresh' = TRUE
               /\ vResult' = "none"
               /\ hPc' = "updated"
               /\ UNCHANGED <<hErr, vExclude>>
          ELSE LET r == run_all_validations(vExpected, vExclude, vExtend, hPost,
                                           download_dir_files(hPost), download_files,
                                           vFixtures)
               IN /\ vResult' = r.result
                  /\ vExclude' = r.exclude_fields
                  /\ vLast' = "run_all_validations"
                  /\ IF r.result = "pass"
                     THEN hPc' = "validated" /\ UNCHANGED hErr
                     ELSE hPc' = "raised" /\ hErr' = Raise(r.result, <<>>)
                  /\ UNCHANGED <<vFixtures, vFresh>>
    /\ UNCHANGED <<hConn, hReach, hItems, hIdx, hRunCalled, hDownloads, hPre, hPost,
                   hFate, hOverwrite>>
    /\ UNCHANGED <<vExpected, vExtend, vOmit>>
    /\ UNCHANGED <<uvars, svars, dvars, ivars, tvars, cvars>>

(***************************************************************************)
(* test_lancedb_destination: the stager is run on the upload file, then    *)
(* the uploader on the path the stager returned.                           *)
(***************************************************************************)
\* stager.run(elements_filepath, file_data, output_dir, output_filename): the
\* staged file is written under output_dir, named after output_filename, and its
\* path returned; ok is whether the elements file could be staged
LanceDBUploadStager_run(elements_filepath, output_dir, output_filename, ok) ==
    IF ok
    THEN [outcome |-> Returned, path |-> output_dir \o "/" \o output_filename \o ".feather"]
    ELSE [outcome |-> Raise("ValueError", <<>>), path |-> NoneValue]

\* staged_file_path = stager.run(...)
Test_stager_run ==
    /\ tPc = "start"
    /\ \E ok \in BOOLEAN :
          LET r == LanceDBUploadStager_run(tFile, "tmp_path", tFile, ok)
          IN IF r.outcome.kind = "return"
             THEN /\ tStaged' = r.path
                  /\ tFs' = tFs \cup {r.path}
                  /\ tPc' = "staged"
             ELSE /\ tPc' = "raised"
                  /\ UNCHANGED <<tStaged, tFs>>
    /\ UNCHANGED <<tFile, tRead>>
    /\ UNCHANGED <<uvars, svars, hvars, dvars, ivars, vvars, cvars>>

\* the uploader handed the elements file instead of the staged one
Test_uploader_run_async_on_upload_file ==
    /\ tPc = "staged"
    /\ tRead' = tFile
    /\ \E ok \in BOOLEAN : tPc' = IF ok THEN "uploaded" ELSE "raised"
    /\ UNCHANGED <<tFile, tStaged, tFs>>
    /\ UNCHANGED <<uvars, svars, hvars, dvars, ivars, vvars, cvars>>

\* await uploader.run_async(path=staged_file_path, file_data=file_data)
Test_uploader_run_async ==
    /\ tPc = "staged"
    /\ tRead' = tStaged
    /\ \E ok \in BOOLEAN : tPc' = IF ok THEN "uploaded" ELSE "raised"
    /\ UNCHANGED <<tFile, tStaged, tFs>>
    /\ UNCHANGED <<uvars, svars, hvars, dvars, ivars, vvars, cvars>>

HarnessNext ==
    \/ Harness_precheck
    \/ Harness_index_next
    \/ Harness_download
    \/ Harness_finish
    \/ Test_stager_run
    \/ Test_uploader_run_async

SpecHarness == HarnessInit /\ [][HarnessNext]_vars

(***************************************************************************)
(* The validation functions at work on one connector's output: the         *)
(* post-download FileData of the first n items of a MongoDB source, their  *)
(* files in the download directory, and a fixture directory recorded       *)
(* earlier.                                                                *)
(***************************************************************************)
\* how a recorded fixture differs from the current FileData
Variants == {"same", "ignored", "created", "both"}

Variant(d, v) ==
    LET ignored == v \in {"ignored", "both"}
        created == v \in {"created", "both"}
        metadata == d.metadata.d
    IN [d EXCEPT
          !.local_download_path = IF ignored THEN JStr("/elsewhere") ELSE @,
          !.metadata = JDict([metadata EXCEPT
              !.date_processed = IF ignored THEN JStr("0.5") ELSE @,
              !.date_created = IF created THEN JStr("earlier") ELSE @])]

\* configs.exclude_fields_extend
Extends ==
    {<<>>, <<<<"metadata", "date_created">>>>, <<<<"metadata", "*">>>>,
     <<<<"connector_type">>, <<"additional_metadata", "*">>>>,
     <<<<"identifier", "x">>>>}

ValidateInit ==
    /\ \E n \in 0..MaxFiles : vData = [k \in 1..n |-> PostDownload(k)]
    /\ vDownloads = download_dir_files(vData)
    /\ vExpected \in {0, Cardinality(vDownloads)}
    /\ vExclude = DefaultExcludeFields
    /\ vExtend \in Extends
    /\ \/ vFixtures = NoFixtures
       \/ \E S \in SUBSET (1..MaxFiles) : \E v \in [S -> Variants] :
             vFixtures =
                 [exists |-> TRUE,
                  file_data |->
                     [name \in {PostDownload(k).identifier \o ".json" : k \in S} |->
                         LET k == CHOOSE k \in S :
                                      PostDownload(k).identifier \o ".json" = name
                         IN json_dump(JDict(Variant(to_dict(PostDownload(k)), v[k])))],
                  directory_structure |->
                     Ascending({CHOOSE j \in 1..k :
                                   /\ PostDownload(j).local_download_path
                                        = PostDownload(k).local_download_path
                                   /\ \A i \in 1..(j - 1) :
                                         PostDownload(i).local_download_path
                                           # PostDownload(k).local_download_path :
                                k \in S})]
    /\ vResult = "none"
    /\ vLast = "none"
    /\ vFresh = FALSE
    /\ vCalls = 0
    /\ vOmit = NoOmit
    /\ uConn = "mongodb" /\ uElems = <<>> /\ uBatch = 1 /\ uPc = "idle"
    /\ uChunks = <<>> /\ uWrites = <<>> /\ uDest = <<>> /\ uLast = NoCall
    /\ uErr = NoError /\ uRuns = 0 /\ uBefore = <<>> /\ uWrappers = 0
    /\ sConn = "mongodb" /\ sInput = <<>> /\ sOutput = <<>> /\ sPc = "idle"
    /\ hConn = "mongodb" /\ hReach = "ok" /\ hItems = <<>> /\ hPc = "idle"
    /\ hIdx = 0 /\ hRunCalled = FALSE /\ hDownloads = 0 /\ hPre = <<>>
    /\ hPost = <<>> /\ hFate = "none" /\ hErr = NoError /\ hOverwrite = FALSE
    /\ dConn = "mongodb" /\ dOffset = 0 /\ dCalls = 0 /\ dFs = <<>> /\ dLast = NoDownload /\ dWrote = {}
    /\ dPending = <<>>
    /\ iConn = "mongodb" /\ iRemote = <<>> /\ iBatch = 1 /\ iSeed = 1 /\ iClock = 1
    /\ iRuns = 0 /\ iPc = "idle" /\ iTodo = <<>> /\ iSpaces = <<>> /\ iOut = <<>>
    /\ iFirst = <<>> /\ iErr = NoError /\ iDown = NoError /\ iStage = <<>>
    /\ iCalls = 0
    /\ tFile = "" /\ tPc = "idle" /\ tStaged = "None" /\ tRead = "None" /\ tFs = {}
    /\ cKind = "indexer" /\ cMode = "cooperative" /\ cConfluence = 0 /\ cBuilt = 0
    /\ cPc = <<>> /\ cRets = <<>> /\ cCalls = 0

\* run_expected_results_validation(test_output_dir / "file_data", ...)
Validate_expected_results ==
    /\ vCalls < MaxCalls
    /\ LET r == run_expected_results_validation(file_data_dir(vFixtures), vData,
                                                vExclude, vExtend)
       IN /\ vResult' = r.result
          /\ vExclude' = r.exclude_fields
    /\ vLast' = "run_expected_results_validation"
    /\ vCalls' = vCalls + 1
    /\ UNCHANGED <<vData, vDownloads, vExpected, vExtend, vFixtures, vFresh, vOmit>>
    /\ UNCHANGED <<uvars, svars, hvars, dvars, ivars, tvars, cvars>>

\* update_fixtures(output_dir, download_dir, all_file_data)
Validate_update_fixtures ==
    /\ vCalls < MaxCalls
    /\ \E download_files \in get_files(vDownloads) :
          vFixtures' = update_fixtures(vData, download_files)
    /\ vResult' = "none"
    /\ vLast' = "update_fixtures"
    /\ vFresh' = TRUE
    /\ vCalls' = vCalls + 1
    /\ UNCHANGED <<vData, vDownloads, vExpected, vExclude, vExtend, vOmit>>
    /\ UNCHANGED <<uvars, svars, hvars, dvars, ivars, tvars, cvars>>

\* run_all_validations(configs, ..., download_dir, test_output_dir)
Validate_run_all ==
    /\ vCalls < MaxCalls
    /\ \E download_files \in get_files(vDownloads) :
          LET r == run_all_validations(vExpected, vExclude, vExtend, vData, vDownloads,
                                       download_files, vFixtures)
          IN /\ vResult' = r.result
             /\ vExclude' = r.exclude_fields
    /\ vLast' = "run_all_validations"
    /\ vCalls' = vCalls + 1
    /\ UNCHANGED <<vData, vDownloads, vExpected, vExtend, vFixtures, vFresh, vOmit>>
    /\ UNCHANGED <<uvars, svars, hvars, dvars, ivars, tvars, cvars>>

\* configs.omit_ignored_fields(data) called on the dict of a FileData or on
\* the dict the call before returned
Validate_omit_ignored_fields ==
    /\ vCalls < MaxCalls
    /\ \E data \in {to_dict(vData[k]) : k \in 1..Len(vData)}
                   \cup (IF vOmit.called /\ vOmit.ok THEN {vOmit.result} ELSE {}) :
          LET exclude_fields == get_exclude_fields(vExclude, vExtend)
              r == omit_ignored_fields(exclude_fields, data)
          IN /\ vExclude' = exclude_fields
             /\ vOmit' = [called |-> TRUE, ok |-> r.ok,
                          own |-> vOmit.called /\ vOmit.ok /\ data = vOmit.result,
                          data |-> data,
                          after |-> omit_ignored_fields_data(exclude_fields, data, data),
                          result |-> r.d]
    /\ vLast' = "omit_ignored_fields"
    /\ vCalls' = vCalls + 1
    /\ UNCHANGED <<vData, vDownloads, vExpected, vExtend, vFixtures, vResult, vFresh>>
    /\ UNCHANGED <<uvars, svars, hvars, dvars, ivars, tvars, cvars>>

ValidateNext ==
    \/ Validate_omit_ignored_fields
    \/ Validate_expected_results
    \/ Validate_update_fixtures
    \/ Validate_run_all

SpecValidate == ValidateInit /\ [][ValidateNext]_vars

(***************************************************************************)
(* Claims about precheck and the Downloader calls, checked under           *)
(* SpecHarness (C8) and SpecDownload (C9, C10).                            *)
(***************************************************************************)
\* C8: on an unreachable remote, precheck() raises the typed connection error
\* (DestinationConnectionError for the Azure and MongoDB uploaders,
\* SourceConnectionError for the MongoDB and Confluence indexers) for every
\* kind of failure, and after a failed indexer.precheck() the harness has
\* stopped with that error without invoking indexer.run() or the downloader.
C8_PrecheckFailureIsTypedAndStopsTheRun ==
    /\ \A reach \in FailureKinds :
          /\ AzureCognitiveSearchUploader_precheck(reach).kind
               = "DestinationConnectionError"
          /\ MongoDBUploader_precheck(reach).kind = "DestinationConnectionError"
          /\ MongoDBIndexer_precheck(reach).kind = "SourceConnectionError"
          /\ ConfluenceIndexer_precheck(reach).kind = "SourceConnectionError"
    /\ (hConn \in {"mongodb", "confluence"} /\ hReach \in FailureKinds
          /\ hPc # "precheck") =>
          /\ hPc = "raised"
          /\ hErr.kind = "SourceConnectionError"
          /\ ~hRunCalled
          /\ hIdx = 0
          /\ hDownloads = 0

\* the harness has stopped on a failed precheck for an authentication failure
\* although the source holds documents
C8_Witness ==
    /\ hReach = "auth"
    /\ hPc = "raised"
    /\ hErr.cause = "ClientAuthError"
    /\ Len(hItems) > 0

\* C9: a downloader call whose remote fetch failed raises the typed
\* source-connection error: it neither returns a DownloadResponse nor lets the
\* client library's exception through.
C9_FailedFetchRaisesSourceConnectionError ==
    (dLast.called /\ dLast.fate \in FailureKinds) =>
        dLast.outcome.kind = "SourceConnectionError"

\* C10: a MongoDB or Confluence downloader call on an item the remote no longer
\* holds ends in an item-not-found outcome: an exception that is not the
\* source-connection error of a failed fetch.
C10_MissingItemIsNotAConnectionError ==
    (dLast.called /\ dLast.fate = "missing" /\ dConn \in {"mongodb", "confluence"}) =>
        /\ dLast.outcome.kind # "return"
        /\ dLast.outcome.kind # "SourceConnectionError"

(***************************************************************************)
(* Claims about what a Downloader call leaves behind, checked under        *)
(* SpecDownload.                                                           *)
(***************************************************************************)
\* the item the remote holds has something to download: a document field
\* besides _id, a page body, a channel message
SourceNonEmpty(conn, fate, source) ==
    CASE fate = "missing" -> FALSE
      [] conn = "mongodb" -> dict_pop(source, "_id") # <<>>
      [] conn = "confluence" -> source.body # ""
      [] OTHER -> source # <<>>

\* C11: a downloader call that returns hands back the FileData it was given
\* (same identifier) with local_download_path set to the path of a file in the
\* download directory, and that file is not empty when the source item (its
\* document fields, page body or channel messages) is not empty.
C11_ReturnedDownloadHasPathAndContent ==
    (dLast.called /\ dLast.outcome.kind = "return") =>
        /\ dLast.file_data.identifier = dLast.given.identifier
        /\ dLast.file_data.local_download_path # NoneValue
        /\ dLast.file_data.local_download_path = dLast.path
        /\ dLast.path \in DOMAIN dFs
        /\ SourceNonEmpty(dConn, dLast.fate, dLast.source) => dFs[dLast.path] # ""

\* the text MongoDBDownloader.run is to write for a document: the values of the
\* flattened document without its _id, printed and separated by newlines
RECURSIVE NewlineJoined(_)
NewlineJoined(values) ==
    IF values = <<>> THEN ""
    ELSE LET rest == NewlineJoined(SubSeq(values, 1, Len(values) - 1))
             last == values[Len(values)]
             printed == IF last.t = "int" THEN ToString(last.n) ELSE last.s
         IN IF Len(values) = 1 THEN printed ELSE rest \o "\n" \o printed

\* C12: after MongoDBDownloader.run returns for a document it found, the file
\* at the download path holds exactly the flattened field values of the
\* document without _id, each as a string, joined by newlines in field order,
\* and nothing of what the file held before the call.
C12_MongoFileIsNewlineJoinedFlattenedValues ==
    (dConn = "mongodb" /\ dLast.called /\ dLast.outcome.kind = "return") =>
        dFs[dLast.path] =
            NewlineJoined(flatten_dict(SelectSeq(dLast.source,
                                                 LAMBDA f : f.k # "_id"), ""))

\* a second call on the same document, whose fields have changed meanwhile,
\* has rewritten the file of a document with a nested dict
C12_Witness ==
    /\ dConn = "mongodb"
    /\ dLast.called /\ dLast.outcome.kind = "return"
    /\ dLast.rewrote
    /\ \E i \in 1..Len(dLast.source) : dLast.source[i].t = "dict"
    /\ dLast.content = "y\n\n0"

(***************************************************************************)
(* Claims about Indexer.run, checked under SpecIndex.                      *)
(***************************************************************************)
\* the identifiers of a sequence of FileData, in order
Identifiers(file_datas) == [k \in 1..Len(file_datas) |-> file_datas[k].identifier]

\* C13: when MongoDBIndexer.run has returned for a collection of n documents,
\* whatever the batch size, it has yielded exactly n FileData, the k-th for
\* the k-th document and for no other, with identifier the string form of
\* that document's id and record_locator.document_id equal to the identifier.
C13_MongoIndexerYieldsEachDocumentOnce ==
    (iConn = "mongodb" /\ iPc = "done") =>
        /\ Len(iOut) = Len(iRemote)
        /\ \A k \in 1..Len(iOut) :
              /\ iOut[k].identifier = MongoDocId(iRemote[k]).s
              /\ iOut[k].metadata.record_locator.document_id = iOut[k].identifier

\* three documents indexed in batches of two: the last batch is a partial one
C13_Witness ==
    /\ iConn = "mongodb"
    /\ iPc = "done"
    /\ iBatch = 2
    /\ Len(iRemote) = 3
    /\ Len(iOut) = 3

\* C14: once a second run() call on the same indexer has returned, with the
\* remote and the configuration unchanged, it has yielded FileData with the
\* same identifiers, in the same order, as the first call: each call
\* enumerates the source from the start.
C14_SecondRunYieldsSameIdentifiersInOrder ==
    (iPc = "done" /\ iRuns >= 2) => Identifiers(iOut) = Identifiers(iFirst)

\* a Discord indexer whose channel list names a channel twice has been run
\* twice and yielded two channels each time
C14_Witness ==
    /\ iConn = "discord"
    /\ iPc = "done"
    /\ iRuns = 2
    /\ Len(iRemote) = 3
    /\ Len(iOut) = 2
    /\ Len(iFirst) = 2

\* the identifiers the remote can enumerate: every document, every channel,
\* every page of a space that can be listed
Enumerable ==
    CASE iConn = "mongodb" -> {MongoDocId(iRemote[k]).s : k \in 1..Len(iRemote)}
      [] iConn = "confluence" ->
            UNION {{PageId(iRemote[j].pages[k]) : k \in 1..Len(iRemote[j].pages)} :
                      j \in {j \in 1..Len(iRemote) : iRemote[j].readable}}
      [] OTHER -> {ChannelId(iRemote[k]) : k \in 1..Len(iRemote)}

\* C15: a run() call that is over has not been aborted by the error of a
\* single item (a space that cannot be listed): it has returned, and every
\* item that can be enumerated has been yielded.
C15_ItemErrorDoesNotAbortRun ==
    (iPc \in {"done", "raised"}) =>
        /\ iPc = "done"
        /\ Enumerable \subseteq Range(Identifiers(iOut))

\* C16: once index + download has been run a second time on the unchanged
\* MongoDB or Discord source, every item's FileData equals the one of the
\* first run after the default ignored fields (local_download_path,
\* metadata.date_processed) are removed from both.
C16_RerunDiffersOnlyInIgnoredFields ==
    (iConn \in {"mongodb", "discord"} /\ iPc = "done" /\ iRuns >= 2) =>
        /\ Len(iOut) = Len(iFirst)
        /\ \A k \in 1..Len(iOut) :
              omit_ignored_fields(DefaultExcludeFields, to_dict(iOut[k])).d
                = omit_ignored_fields(DefaultExcludeFields, to_dict(iFirst[k])).d

(***************************************************************************)
(* Claims about the fixture validation, checked under SpecValidate.        *)
(***************************************************************************)
\* every path below the dict d, with the type and the text of what it holds
RECURSIVE Nodes(_, _)
Nodes(d, prefix) ==
    UNION {LET path == Append(prefix, k)
           IN IF d[k].t = "dict"
              THEN {<<path, "dict", "">>} \cup Nodes(d[k].d, path)
              ELSE {<<path, d[k].t, d[k].s>>} : k \in DOMAIN d}

\* the path lies at or below an excluded field, or below the dict that an
\* excluded field ending in * names
Excluded(path, fields) ==
    \E e \in fields :
        IF e[Len(e)] = "*"
        THEN /\ Len(path) >= Len(e)
             /\ SubSeq(path, 1, Len(e) - 1) = SubSeq(e, 1, Len(e) - 1)
        ELSE /\ Len(path) >= Len(e)
             /\ SubSeq(path, 1, Len(e)) = e

\* what a dict holds outside the excluded fields
Kept(d, fields) == {n \in Nodes(d, <<>>) : ~Excluded(n[1], fields)}

\* C17: run_expected_results_validation passes exactly when the file names of
\* the fixture directory are the names identifier.json of the FileData and,
\* for every FileData, the fixture and to_dict() hold the same outside the
\* configured excluded fields (a top-level key, a dotted path, or everything
\* below a path ending in *).
C17_ExpectedResultsPassIffEqualOutsideExcluded ==
    (vLast = "run_expected_results_validation") =>
        LET fields == Range(DefaultExcludeFields) \cup Range(vExtend)
            names == {vData[k].identifier \o ".json" : k \in 1..Len(vData)}
        IN (vResult = "pass") <=>
              /\ vFixtures.exists
              /\ DOMAIN vFixtures.file_data = names
              /\ \A k \in 1..Len(vData) :
                    Kept(json_load(vFixtures.file_data[vData[k].identifier \o ".json"]).d,
                         fields)
                      = Kept(to_dict(vData[k]), fields)

\* the validation has passed for two FileData whose fixtures differ from them
\* in local_download_path, metadata.date_processed and metadata.date_created,
\* all metadata being excluded by "metadata.*"
C17_Witness ==
    /\ vLast = "run_expected_results_validation"
    /\ vResult = "pass"
    /\ Len(vData) = 2
    /\ vExtend = <<<<"metadata", "*">>>>
    /\ \A k \in 1..2 :
          LET fixture == json_load(vFixtures.file_data[vData[k].identifier \o ".json"]).d
          IN /\ fixture.metadata.d.date_created # to_dict(vData[k]).metadata.d.date_created
             /\ fixture.local_download_path # to_dict(vData[k]).local_download_path

\* C18: once update_fixtures has rewritten the fixtures from the FileData list
\* and the download directory, run_all_validations on that list and that
\* directory passes.
C18_ValidationsPassAfterUpdateFixtures ==
    (vFresh /\ vLast = "run_all_validations") => vResult = "pass"

\* the validations have passed on two FileData as the third call, after
\* update_fixtures rewrote the fixtures
C18_Witness ==
    /\ vFresh
    /\ vLast = "run_all_validations"
    /\ vResult = "pass"
    /\ Len(vData) = 2
    /\ vCalls = 3

(***************************************************************************)
(* Claims about the harness's downloader call, checked under SpecHarness.  *)
(***************************************************************************)
AllDownloaders == {"mongodb", "confluence", "discord", "s3"}

\* C19: every downloader class defines exactly one of a blocking run and an
\* async run_async, is_async() answers True exactly for the class that
\* defines run_async, and so the call the harness selects with is_async()
\* returns a DownloadResponse whenever the fetch finds the item.
C19_IsAsyncNamesTheOneImplementedCall ==
    /\ \A conn \in AllDownloaders :
          LET blocking == Implements(conn).run = "def"
              async == Implements(conn).run_async = "async def"
          IN /\ blocking # async
             /\ is_async(conn) = async
    /\ (hFate = "found" /\ vLast = "none") => hPc # "raised"

\* C20: no step changes the identifier of a FileData the indexer has yielded:
\* the download of the item (MongoDB, Confluence, Discord awaited), the upload
\* stager's run and the uploader's run on it all leave the identifier what the
\* indexer assigned.
C20_IdentifierIsNeverReassigned ==
    [][\A k \in DOMAIN iOut \cap DOMAIN iOut' :
          iOut'[k].identifier = iOut[k].identifier]_vars

\* a channel's FileData has been downloaded by the awaited
\* DiscordDownloader.run, then staged and uploaded into the destination, and
\* carries the channel id the indexer gave it and the download path
C20_Witness ==
    /\ iConn = "discord"
    /\ iPc = "done"
    /\ Len(iOut) = 1
    /\ iStage[Len(iOut)].at = "uploaded"
    /\ uPc = "done" /\ uDest # <<>>
    /\ sPc = "done" /\ sOutput # <<>>
    /\ iOut[Len(iOut)].local_download_path # NoneValue
    /\ iOut[Len(iOut)].identifier = iOut[Len(iOut)].metadata.record_locator.channel_id

(***************************************************************************)
(* The confluence property of ConfluenceIndexer and ConfluenceDownloader.  *)
(* Cooperative tasks run the getter whole, since it never awaits; threads  *)
(* may be switched between its statements.                                 *)
(***************************************************************************)
\* self._confluence = None; the clients constructed are numbered from 1
NoClient == 0

\* the getter constructing a client on every access, without the test of the
\* field
confluence_without_test(self_confluence, built) ==
    [self_confluence |-> built + 1, built |-> built + 1, ret |-> built + 1]

\* @property def confluence(self), run without interruption: the instance's
\* field, the count of clients constructed and the value returned
confluence(self_confluence, built) ==
    IF self_confluence = NoClient
    THEN [self_confluence |-> built + 1, built |-> built + 1, ret |-> built + 1]
    ELSE [self_confluence |-> self_confluence, built |-> built, ret |-> self_confluence]

\* __post_init__: self._confluence = None
ClientInit ==
    /\ cKind \in {"indexer", "downloader"}
    /\ cMode \in {"cooperative", "threads"}
    /\ cConfluence = NoClient
    /\ cBuilt = 0
    /\ cPc = [t \in Tasks |-> [at |-> "out", client |-> NoClient]]
    /\ cRets = <<>>
    /\ cCalls = 0
    /\ uConn = "mongodb" /\ uElems = <<>> /\ uBatch = 1 /\ uPc = "idle"
    /\ uChunks = <<>> /\ uWrites = <<>> /\ uDest = <<>> /\ uLast = NoCall
    /\ uErr = NoError /\ uRuns = 0 /\ uBefore = <<>> /\ uWrappers = 0
    /\ sConn = "mongodb" /\ sInput = <<>> /\ sOutput = <<>> /\ sPc = "idle"
    /\ hConn = "mongodb" /\ hReach = "ok" /\ hItems = <<>> /\ hPc = "idle"
    /\ hIdx = 0 /\ hRunCalled = FALSE /\ hDownloads = 0 /\ hPre = <<>>
    /\ hPost = <<>> /\ hFate = "none" /\ hErr = NoError /\ hOverwrite = FALSE
    /\ dConn = "mongodb" /\ dOffset = 0 /\ dCalls = 0 /\ dFs = <<>> /\ dLast = NoDownload /\ dWrote = {}
    /\ dPending = <<>>
    /\ iConn = "mongodb" /\ iRemote = <<>> /\ iBatch = 1 /\ iSeed = 1 /\ iClock = 1
    /\ iRuns = 0 /\ iPc = "idle" /\ iTodo = <<>> /\ iSpaces = <<>> /\ iOut = <<>>
    /\ iFirst = <<>> /\ iErr = NoError /\ iDown = NoError /\ iStage = <<>>
    /\ iCalls = 0
    /\ vData = <<>> /\ vDownloads = {} /\ vExpected = 0 /\ vExclude = <<>>
    /\ vExtend = <<>> /\ vFixtures = <<>> /\ vResult = "none" /\ vLast = "none"
    /\ vFresh = FALSE /\ vCalls = 0 /\ vOmit = NoOmit
    /\ tFile = "" /\ tPc = "idle" /\ tStaged = "None" /\ tRead = "None" /\ tFs = {}

\* a cooperative task reads self.confluence: the getter runs to its return
Confluence_access ==
    /\ cMode = "cooperative"
    /\ cCalls < MaxCalls
    /\ \E t \in Tasks :
          LET r == confluence(cConfluence, cBuilt)
          IN /\ cConfluence' = r.self_confluence
             /\ cBuilt' = r.built
             /\ cRets' = Append(cRets, [task |-> t, client |-> r.ret])
    /\ cCalls' = cCalls + 1
    /\ UNCHANGED <<cKind, cMode, cPc>>
    /\ UNCHANGED <<uvars, svars, hvars, dvars, ivars, vvars, tvars>>

\* a thread evaluates: if self._confluence is None
Confluence_thread_test ==
    /\ cMode = "threads"
    /\ cCalls < MaxCalls
    /\ \E t \in Tasks :
          /\ cPc[t].at = "out"
          /\ cPc' = [cPc EXCEPT ![t].at = IF cConfluence = NoClient
                                          THEN "construct" ELSE "return"]
    /\ cCalls' = cCalls + 1
    /\ UNCHANGED <<cKind, cMode, cConfluence, cBuilt, cRets>>
    /\ UNCHANGED <<uvars, svars, hvars, dvars, ivars, vvars, tvars>>

\* a thread evaluates the right-hand side Confluence(url=..., username=...,
\* password=...): a client is constructed, the field is not yet assigned
Confluence_thread_construct ==
    /\ cMode = "threads"
    /\ \E t \in Tasks :
          /\ cPc[t].at = "construct"
          /\ cPc' = [cPc EXCEPT ![t] = [at |-> "store", client |-> cBuilt + 1]]
    /\ cBuilt' = cBuilt + 1
    /\ UNCHANGED <<cKind, cMode, cConfluence, cRets, cCalls>>
    /\ UNCHANGED <<uvars, svars, hvars, dvars, ivars, vvars, tvars>>

\* a thread stores the client it constructed: self._confluence = <client>
Confluence_thread_store ==
    /\ cMode = "threads"
    /\ \E t \in Tasks :
          /\ cPc[t].at = "store"
          /\ cConfluence' = cPc[t].client
          /\ cPc' = [cPc EXCEPT ![t] = [at |-> "return", client |-> NoClient]]
    /\ UNCHANGED <<cKind, cMode, cBuilt, cRets, cCalls>>
    /\ UNCHANGED <<uvars, svars, hvars, dvars, ivars, vvars, tvars>>

\* a thread executes: return self._confluence
Confluence_thread_return ==
    /\ cMode = "threads"
    /\ \E t \in Tasks :
          /\ cPc[t].at = "return"
          /\ cPc' = [cPc EXCEPT ![t].at = "out"]
          /\ cRets' = Append(cRets, [task |-> t, client |-> cConfluence])
    /\ UNCHANGED <<cKind, cMode, cConfluence, cBuilt, cCalls>>
    /\ UNCHANGED <<uvars, svars, hvars, dvars, ivars, vvars, tvars>>

ClientNext ==
    \/ Confluence_access
    \/ Confluence_thread_test
    \/ Confluence_thread_construct
    \/ Confluence_thread_store
    \/ Confluence_thread_return

SpecClient == ClientInit /\ [][ClientNext]_vars

(***************************************************************************)
(* Claims about what a downloader fetches, checked under SpecDownload.     *)
(***************************************************************************)
HasRecordLocator(file_data) == "record_locator" \in DOMAIN file_data.metadata

\* the FileData the indexer yields whose record_locator is that of file_data
IndexedAlike(conn, file_data) ==
    {Indexer_file_data(conn, i, 0) : i \in
        {k \in 1..MaxItems :
            Indexer_file_data(conn, k, 0).metadata.record_locator
                = file_data.metadata.record_locator}}

\* C21: the FileData a downloader is handed carries a record_locator, and the
\* remote item the call asks for is the one asked for when the indexer's own
\* FileData with that record_locator is handed over, whatever the identifier.
C21_FetchIsDeterminedByRecordLocator ==
    dLast.called =>
        /\ HasRecordLocator(dLast.given)
        /\ \A file_data \in IndexedAlike(dConn, dLast.given) :
              dLast.fetch = Downloader_fetch(dConn, file_data)

\* the FileData the indexer of conn yields
Indexed(conn) == {Indexer_file_data(conn, i, 0) : i \in 1..MaxItems}

\* C22: calls on the same FileData write the same path and calls on FileData
\* with distinct identifiers write distinct paths; the download directory
\* holds exactly the paths written, one file each, and the file of the last
\* call holds what that call fetched.
C22_RedownloadOverwritesTheSameFile ==
    /\ \A w1 \in dWrote, w2 \in dWrote :
          /\ w1.file_data = w2.file_data => w1.path = w2.path
          /\ (w1.file_data \in Indexed(dConn) /\ w2.file_data \in Indexed(dConn)) =>
                (w1.file_data.identifier = w2.file_data.identifier
                    <=> w1.path = w2.path)
    /\ DOMAIN dFs = {w.path : w \in dWrote}
    /\ (dLast.called /\ dLast.outcome.kind = "return") =>
          dFs[dLast.path] = dLast.content

\* three calls on the indexer's FileData: two items downloaded, one of them a
\* second time, and the directory holds two files
C22_Witness ==
    /\ dCalls = 3
    /\ dLast.rewrote
    /\ dLast.content # ""
    /\ \A w \in dWrote : w.file_data \in Indexed(dConn)
    /\ Cardinality(dWrote) = 2
    /\ Cardinality(DOMAIN dFs) = 2

(***************************************************************************)
(* Claims about the order of the stages, checked under SpecHarness.        *)
(***************************************************************************)
\* C23: a download is started only for an item the indexer has yielded and
\* not yet downloaded, the next item is pulled only when every item pulled so
\* far has had its download call end, and the uploader is started only after
\* the stager has returned, on exactly the path the stager returned.
C23_StagesOfAnItemRunInSequence ==
    [][/\ hDownloads' # hDownloads => (hIdx = hDownloads + 1 /\ hIdx' = hIdx)
       /\ hIdx' # hIdx => (hDownloads = hIdx /\ hDownloads' = hDownloads)
       /\ tRead' # tRead =>
             (tPc = "staged" /\ tStaged # NoneValue /\ tRead' = tStaged
                /\ tStaged \in tFs)]_vars

\* two items have been pulled and downloaded one after the other, and the
\* uploader has run on the staged file
C23_Witness ==
    /\ hIdx = 2 /\ hDownloads = 2 /\ Len(hPost) = 2
    /\ tPc = "uploaded"
    /\ tRead = tStaged
    /\ tRead # NoneValue

(***************************************************************************)
(* Claims about the lazily constructed client, checked under SpecClient.   *)
(***************************************************************************)
\* no client exists before the first access; afterwards one client has been
\* constructed, the instance holds it and every access has returned it
OneClient ==
    /\ cCalls = 0 => (cBuilt = 0 /\ cConfluence = NoClient)
    /\ cBuilt <= 1
    /\ \A k \in 1..Len(cRets) : cRets[k].client = 1
    /\ cRets # <<>> => (cBuilt = 1 /\ cConfluence = 1)

\* C24: no client exists before the first access of the confluence property,
\* and every access returns a client the instance has constructed; the tasks
\* that use an instance, whose accesses run one after the other in whatever
\* order they are issued because the getter never awaits, have exactly one
\* client constructed between them and every access of theirs returns it.
\* Threads made to share an instance, against the shared-resource policy, are
\* not bound by the last clause: each that finds the field None constructs.
C24_OneClientForTheTasksOfAnInstance ==
    /\ cCalls = 0 => (cBuilt = 0 /\ cConfluence = NoClient)
    /\ \A k \in 1..Len(cRets) : cRets[k].client \in 1..cBuilt
    /\ cMode = "cooperative" => OneClient

\* two tasks have read the property of one instance, three times in all, and
\* one client has been constructed
C24_Witness ==
    /\ cMode = "cooperative"
    /\ Len(cRets) = 3
    /\ cRets[1].task # cRets[2].task
    /\ cBuilt = 1
    /\ cConfluence = 1

(***************************************************************************)
(* Claims about a failed Uploader.run, checked under SpecUpload.           *)
(***************************************************************************)
\* C25: a write call that raises ends run(): the failing batch is the last
\* one sent and every batch after it is still unsent; after a failed run the
\* destination holds what it held when the run began, the records of the
\* batches before the failing one and the part of the failing batch the
\* destination accepted; a retry of run() sends the batches again from the
\* first.
C25_RunStopsAtTheFirstFailingBatch ==
    LET batches == batch_generator(uElems, uBatch)
        k == Len(uWrites)
    IN /\ (uLast.via = "run" /\ uLast.outcome.kind # "return") => uPc = "raised"
       /\ uPc = "raised" =>
             /\ uWrites = SubSeq(batches, 1, k)
             /\ uChunks = SubSeq(batches, k, Len(batches))
             /\ uLast.via = "run" =>
                   /\ uLast.outcome.kind # "return"
                   /\ uDest = uBefore \o Flatten(SubSeq(batches, 1, k - 1))
                               \o uLast.accepted
       /\ (uRuns >= 2 /\ uPc = "loop") =>
             uWrites \o uChunks = batches

\* a retried run over 3 records in batches of 1: the first run failed at the
\* second batch, the retry has sent the first batch again and failed at it
C25_Witness ==
    /\ uRuns = 2
    /\ uPc = "raised"
    /\ Len(uElems) = 3 /\ uBatch = 1
    /\ Len(uWrites) = 1
    /\ Len(uDest) >= 1

(***************************************************************************)
(* Claims about the pre-download snapshot, checked under SpecHarness.      *)
(***************************************************************************)
\* the pre-download copy of item k still holds what the indexer yielded
SnapshotAsYielded(k) == hPre[k] = Indexer_file_data(hConn, Harness_order[k], 0)

\* C26: the pre-download copy recorded for an item is not changed by the
\* downloader call on that item: once the item is downloaded, every field of
\* the copy, nested metadata included, has the value the indexer yielded.
C26_SnapshotIsUnchangedByTheDownload ==
    \A k \in 1..Len(hPre) : SnapshotAsYielded(k)

\* a MongoDB document has been downloaded: the post-download FileData holds
\* the path of the file, the pre-download copy holds none
C26_Witness ==
    /\ hConn = "mongodb"
    /\ Len(hPost) >= 1
    /\ hPost[1].local_download_path # NoneValue
    /\ hPre[1].local_download_path = NoneValue
    /\ hPre[1].metadata = hPost[1].metadata

(***************************************************************************)
(* Claims about ValidationConfigs, checked under SpecValidate.             *)
(***************************************************************************)
\* omit_ignored_fields left the dict it was handed as it found it
OmitLeavesItsArgument == (vOmit.called /\ vOmit.ok) => vOmit.after = vOmit.data

\* omit_ignored_fields applied to the dict it returned returns that dict
OmitIsIdempotent == (vOmit.called /\ vOmit.ok /\ vOmit.own) => vOmit.result = vOmit.data

\* configs.exclude_fields holds what it held before the first call
ExcludeFieldsKeepTheirContents == vExclude = DefaultExcludeFields

\* C27: omit_ignored_fields and get_exclude_fields have no side effects over
\* any sequence of calls: omit_ignored_fields leaves its argument unchanged at
\* every nesting level, it is idempotent, and exclude_fields has the same
\* contents after any number of calls as before the first.
C27_OmitAndGetExcludeFieldsHaveNoSideEffects ==
    /\ OmitLeavesItsArgument
    /\ OmitIsIdempotent
    /\ ExcludeFieldsKeepTheirContents

\* what omit_ignored_fields does keep: the top-level keys of its argument
OmitLeavesItsArgumentsTopLevel ==
    (vOmit.called /\ vOmit.ok) =>
        /\ DOMAIN vOmit.after = DOMAIN vOmit.data
        /\ \A k \in DOMAIN vOmit.data :
              vOmit.data[k].t # "dict" => vOmit.after[k] = vOmit.data[k]

\* exclude_fields keeps its contents when exclude_fields_extend is empty
ExcludeFieldsKeepTheirContentsUnextended ==
    vExtend = <<>> => vExclude = DefaultExcludeFields

====
